---- MODULE Spec2Model ----
(***************************************************************************)
(* A model of the VOD migrator's asset-resolution core:                    *)
(*   Downloader.py     loadUrl / __loadUrlWorker (bounded retry)           *)
(*   HlsVodAsset.py    master / variant playlist parsing, resource set     *)
(*   DashVodAsset.py   segment templates, timelines, resource set          *)
(* Python strings are TLA+ strings; a character is a string of length 1.   *)
(* Python's None is the model value None.                                  *)
(***************************************************************************)
EXTENDS Integers, Sequences, FiniteSets, TLC

VARIABLES
  \* ---- the process and the servers it talks to ----
  SIGV4_SIGN_REQUESTS,  \* the module global of Downloader.py: None | "True"
  SIGV4_REQUEST_REGION, \* the module global of Downloader.py
  origin,            \* per url, what the server answers to the 1st, 2nd, ... request
  requestLog,        \* history: the requests sent, in order
  callLog,           \* history: the loadUrl calls and inferSigV4Signing runs, in order
  threads,           \* per concurrent thread in __loadUrlWorker: its url and position
  \* ---- one activation of Downloader.loadUrl ----
  loadPc,            \* "idle" | "loop" | "returned" | "raised"
  url,               \* the url argument of loadUrl
  attempt,           \* loadUrl's local attempt
  lastStatusCode,    \* loadUrl's local lastStatusCode
  errorMessage,      \* errorMessage of the latest __loadUrlWorker result
  slept,             \* total time.sleep()-ed by this activation
  responses,         \* history: what each __loadUrlWorker call obtained
  loadRet,           \* <<Ok(the tuple loadUrl returned)>>, <<Raise(its exception)>> or <<>>
  \* ---- one construction of HlsVodAsset / DashVodAsset ----
  pc,                \* position of the constructor
  format,            \* "HLS" | "DASH" | None
  masterManifest,    \* self.masterManifest
  masterManifestContentType, \* self.masterManifestContentType
  variantManifests,  \* self.variantManifests
  variantIdx,        \* position of the for loop over self.variantManifests
  variantManifestsData, \* self.variantManifestsData
  mediaSegmentList,  \* self.mediaSegmentList
  allResources,      \* self.allResources
  commonPrefix,      \* self.commonPrefix
  asset,             \* <<the object>> the caller of the constructor obtained, or <<>>
  error,             \* the exception the constructor raised, or NoExc
  fetchLog,          \* history: the urls whose __getManifest call returned
  \* ---- one call of a module-level function ----
  op,                \* the function called
  input,             \* its arguments
  output             \* Pending, Ok(its return value) or Raise(its exception)

loadVars  == <<SIGV4_SIGN_REQUESTS, SIGV4_REQUEST_REGION, origin, requestLog, callLog, threads,
               loadPc, url, attempt, lastStatusCode, errorMessage, slept,
               responses, loadRet>>
assetVars == <<pc, format, masterManifest, masterManifestContentType,
               variantManifests, variantIdx,
               variantManifestsData, mediaSegmentList, allResources,
               commonPrefix, asset, error, fetchLog>>
callVars  == <<op, input, output>>
vars      == <<loadVars, assetVars, callVars>>

None == "None"

-----------------------------------------------------------------------------
(* Python str operations used by the sources.                              *)

Ch(s, i) == SubSeq(s, i, i)

\* s[i:] with a 1-based i
From(s, i) == SubSeq(s, i, Len(s))

\* s[:n]
Take(s, n) == SubSeq(s, 1, n)

\* str.startswith
StartsWith(s, p) == Len(p) <= Len(s) /\ Take(s, Len(p)) = p

\* str.endswith
EndsWith(s, p) == Len(p) <= Len(s) /\ From(s, Len(s) - Len(p) + 1) = p

\* str.find, 1-based; 0 when sub does not occur
Find(s, sub) ==
  LET hits == {i \in 1..(Len(s) - Len(sub) + 1) : SubSeq(s, i, i + Len(sub) - 1) = sub}
  IN  IF hits = {} THEN 0 ELSE CHOOSE i \in hits : \A j \in hits : i <= j

\* str.rfind, 1-based; 0 when sub does not occur
RFind(s, sub) ==
  LET hits == {i \in 1..(Len(s) - Len(sub) + 1) : SubSeq(s, i, i + Len(sub) - 1) = sub}
  IN  IF hits = {} THEN 0 ELSE CHOOSE i \in hits : \A j \in hits : i >= j

\* the "in" operator on strings
Contains(s, sub) == Find(s, sub) # 0

\* str.replace(old, new): every non-overlapping occurrence, left to right
RECURSIVE Replace(_, _, _)
Replace(s, old, new) ==
  LET i == Find(s, old)
  IN  IF i = 0 THEN s
      ELSE Take(s, i - 1) \o new \o Replace(From(s, i + Len(old)), old, new)

\* str.split(sep, 1)
Split1(s, sep) ==
  LET i == Find(s, sep)
  IN  IF i = 0 THEN <<s>> ELSE <<Take(s, i - 1), From(s, i + Len(sep))>>

\* str.split(sep)
RECURSIVE Split(_, _)
Split(s, sep) ==
  LET i == Find(s, sep)
  IN  IF i = 0 THEN <<s>> ELSE <<Take(s, i - 1)>> \o Split(From(s, i + Len(sep)), sep)

\* sep.join(parts)
RECURSIVE Join(_, _)
Join(parts, sep) ==
  IF parts = <<>> THEN ""
  ELSE IF Len(parts) = 1 THEN parts[1]
  ELSE parts[1] \o sep \o Join(Tail(parts), sep)

\* str.lstrip(c) / str.rstrip(c) / str.strip(c) for a single character c
RECURSIVE LStrip(_, _)
LStrip(s, c) == IF s # "" /\ Ch(s, 1) = c THEN LStrip(From(s, 2), c) ELSE s

RECURSIVE RStrip(_, _)
RStrip(s, c) ==
  IF s # "" /\ Ch(s, Len(s)) = c THEN RStrip(Take(s, Len(s) - 1), c) ELSE s

Strip(s, c) == RStrip(LStrip(s, c), c)

\* str.splitlines(): breaks at \n, \r and \r\n; no empty last line
RECURSIVE SplitLines(_)
SplitLines(s) ==
  LET brk == {i \in 1..Len(s) : Ch(s, i) \in {"\n", "\r"}}
  IN  IF s = "" THEN <<>>
      ELSE IF brk = {} THEN <<s>>
      ELSE LET i == CHOOSE k \in brk : \A j \in brk : k <= j
               n == IF Ch(s, i) = "\r" /\ i < Len(s) /\ Ch(s, i + 1) = "\n"
                    THEN i + 2 ELSE i + 1
           IN  <<Take(s, i - 1)>> \o SplitLines(From(s, n))

\* os.path.basename (posixpath)
Basename(p) == From(p, RFind(p, "/") + 1)

\* os.path.dirname (posixpath)
Dirname(p) ==
  LET head == Take(p, RFind(p, "/"))
  IN  IF head # "" /\ RStrip(head, "/") # "" THEN RStrip(head, "/") ELSE head

\* os.path.commonprefix: the longest string every member starts with
\* ('' for an empty list)
CommonPrefixOf(m) ==
  IF m = {} THEN ""
  ELSE LET s1 == CHOOSE s \in m : \A t \in m : Len(s) <= Len(t)
           ks == {k \in 0..Len(s1) : \A t \in m : Take(t, k) = Take(s1, k)}
       IN  Take(s1, CHOOSE k \in ks : \A j \in ks : j <= k)


-----------------------------------------------------------------------------
(* Outcomes of a call.  A call returns a value, Ok(v), or raises,          *)
(* Raise(e).  An exception e records the fields the code puts into         *)
(* Exception({...}): "error", "url", "httpError" (None when it puts none); *)
(* exc names the exception class.                                          *)

Exc(kind, msg, u, st) == [exc |-> kind, error |-> msg, url |-> u, httpError |-> st]

NoExc == Exc(None, None, None, None)

Ok(v) == [raised |-> FALSE, val |-> v]

Raise(e) == [raised |-> TRUE, val |-> e]

Pending == [pending |-> TRUE]

-----------------------------------------------------------------------------
(* re.compile(pattern + '$').sub('', s) for the patterns the common-prefix *)
(* code builds from a basename.  Modelled metacharacters: '.' (any         *)
(* character) and '?' (optional; '??' its lazy form).  Every other         *)
(* character of the model's alphabets is a literal.                        *)

\* re.compile: the pattern as a sequence of atoms [c, opt], or re.error
\* ("nothing to repeat", "multiple repeat").  q is the number of '?' already
\* applied to the last atom.
RECURSIVE ReCompile(_, _, _)
ReCompile(p, atoms, q) ==
  IF p = "" THEN Ok(atoms)
  ELSE IF Ch(p, 1) = "?"
       THEN IF atoms = <<>> \/ q = 2
            THEN Raise(Exc("re.error", "nothing to repeat", None, None))
            ELSE ReCompile(From(p, 2),
                           [atoms EXCEPT ![Len(atoms)].opt = TRUE], q + 1)
       ELSE ReCompile(From(p, 2), Append(atoms, [c |-> Ch(p, 1), opt |-> FALSE]), 0)

\* whether atoms followed by '$' match the whole of s
RECURSIVE ReFullMatch(_, _)
ReFullMatch(s, atoms) ==
  IF atoms = <<>> THEN s = ""
  ELSE \/ /\ s # ""
          /\ (atoms[1].c = "." \/ atoms[1].c = Ch(s, 1))
          /\ ReFullMatch(From(s, 2), Tail(atoms))
       \/ /\ atoms[1].opt
          /\ ReFullMatch(s, Tail(atoms))

\* pattern.sub('', s) for an end-anchored pattern: the leftmost match runs to
\* the end of s and is removed
ReSubEnd(atoms, s) ==
  LET starts == {i \in 1..(Len(s) + 1) : ReFullMatch(From(s, i), atoms)}
  IN  IF starts = {} THEN s
      ELSE Take(s, (CHOOSE i \in starts : \A j \in starts : i <= j) - 1)

\* the "Set common prefix" block of parseHlsVodAsset / parseDashVodAsset:
\* Ok(the new commonPrefix), or the exception re.compile raises
ComputeCommonPrefix(uniqueResources) ==
  LET prefix == CommonPrefixOf(uniqueResources)
  IN  IF EndsWith(prefix, "/") THEN Ok(prefix)
      ELSE LET unwantedPathSuffix == Basename(prefix)
               pathSuffix == ReCompile(unwantedPathSuffix, <<>>, 0)
           IN  IF pathSuffix.raised THEN pathSuffix
               ELSE Ok(ReSubEnd(pathSuffix.val, prefix))

-----------------------------------------------------------------------------
(* Idle values of the three groups of variables.                           *)

\* a process that has not fetched anything yet
LoadFresh ==
  /\ loadPc = "idle" /\ url = None /\ attempt = 0 /\ lastStatusCode = None
  /\ errorMessage = None /\ slept = 0 /\ responses = <<>> /\ loadRet = <<>>
  /\ SIGV4_SIGN_REQUESTS = None /\ SIGV4_REQUEST_REGION = None
  /\ requestLog = <<>> /\ callLog = <<>> /\ threads = <<>>

LoadIdle == LoadFresh /\ origin = <<>>

AssetIdle ==
  /\ pc = "idle" /\ format = None /\ masterManifest = None
  /\ masterManifestContentType = None
  /\ variantManifests = None /\ variantIdx = 0
  /\ variantManifestsData = <<>> /\ mediaSegmentList = <<>>
  /\ allResources = None /\ commonPrefix = None /\ asset = <<>>
  /\ error = NoExc /\ fetchLog = <<>>

CallIdle == op = None /\ input = None /\ output = Pending

-----------------------------------------------------------------------------
(* Common prefix of a resource set, as a function of the set.              *)

MaxTail == 2
MaxUrls == 2

TailAlphabet == {"s", "1", "/", "?", "."}

RECURSIVE StringsUpTo(_, _)
StringsUpTo(alphabet, n) ==
  IF n = 0 THEN {""}
  ELSE LET shorter == StringsUpTo(alphabet, n - 1)
       IN  shorter \cup {s \o c : s \in shorter, c \in alphabet}

\* the non-empty subsets of S with at most n members
RECURSIVE SetsUpTo(_, _)
SetsUpTo(S, n) ==
  IF n <= 1 THEN {{x} : x \in S}
  ELSE LET smaller == SetsUpTo(S, n - 1)
       IN  smaller \cup {r \cup {x} : r \in smaller, x \in S}

PrefixBase == "https://h/a/"

PrefixUrls ==
  {PrefixBase \o t : t \in StringsUpTo(TailAlphabet, MaxTail)}
    \cup {"https://h/a/b/seg1.m4s", "https://h/a/b/seg2.m4s",
          "https://h/a/seg1.m4s", "https://h/a/segX.m4s",
          "https://h/a/m.m3u8?t=1", "https://h/a/m.m3u8"}

InitPrefix ==
  /\ LoadIdle /\ AssetIdle
  /\ op = "commonPrefix"
  /\ input \in SetsUpTo(PrefixUrls, MaxUrls)
  /\ output = Pending

CallCommonPrefix ==
  /\ op = "commonPrefix" /\ output = Pending
  /\ output' = ComputeCommonPrefix(input)
  /\ UNCHANGED <<op, input, loadVars, assetVars>>

NextPrefix == CallCommonPrefix

SpecPrefix == InitPrefix /\ [][NextPrefix]_vars

\* the character-wise longest common prefix cut back to its last '/'
CutToSlash(p) == Take(p, RFind(p, "/"))

\* C5: for every non-empty resource set the computed commonPrefix ends in '/',
\* is a prefix of every resource URL and is the longest common prefix of the
\* URLs cut back to its last '/', whatever characters the shared filename
\* fragment holds (a query string on a lone master manifest URL included).
C5_CommonPrefixIsPath ==
  (op = "commonPrefix" /\ output # Pending) =>
    /\ ~output.raised
    /\ EndsWith(output.val, "/")
    /\ \A r \in input : StartsWith(r, output.val)
    /\ output.val = CutToSlash(CommonPrefixOf(input))

-----------------------------------------------------------------------------
(* DashVodAsset.getSegmentTimeline.  A SegmentTimeline component S is a    *)
(* record [t, d, r]; the optional integers t and r are <<>> (None) or <<n>>.*)

NoInt == <<>>

\* t = t + (r+1)*d
AdvancedTime_NoPlusOne(t, r, d) == t + r * d

AdvancedTime(t, r, d) == t + (r + 1) * d

\* the for loop over segmentTimelineComponents: t is the running time (NoInt
\* while None), acc is mediaSegmentTimes.  Adding to a None t is a TypeError.
RECURSIVE SegmentTimelineLoop(_, _, _)
SegmentTimelineLoop(components, t, acc) ==
  IF components = <<>> THEN Ok(acc)
  ELSE LET S  == Head(components)
           t1 == IF S.t # NoInt THEN S.t ELSE t
       IN  IF t1 = NoInt
           THEN Raise(Exc("TypeError", "unsupported operand type(s) for +", None, None))
           ELSE LET repeats == IF S.r # NoInt
                               THEN [x \in 1..S.r[1] |-> t1[1] + x * S.d]
                               ELSE <<>>
                    r == IF S.r # NoInt THEN S.r[1] ELSE 0
                IN  SegmentTimelineLoop(Tail(components),
                                        <<AdvancedTime(t1[1], r, S.d)>>,
                                        (acc \o <<t1[1]>>) \o repeats)

\* getSegmentTimeline(segmentTemplate), given segment_timelines[0].Ss
getSegmentTimeline(Ss) == SegmentTimelineLoop(Ss, NoInt, <<>>)

MaxTriples == 2
MaxRepeat == 2

TimelineStarts == {NoInt, <<0>>, <<7>>}
TimelineDurations == {5, 10}
TimelineRepeats == {NoInt} \cup {<<n>> : n \in 0..MaxRepeat}

TimelineComponents == [t : TimelineStarts, d : TimelineDurations, r : TimelineRepeats]

RECURSIVE SeqsUpTo(_, _)
SeqsUpTo(S, n) ==
  IF n = 0 THEN {<<>>}
  ELSE LET shorter == SeqsUpTo(S, n - 1)
       IN  shorter \cup {Append(q, x) : q \in shorter, x \in S}

InitTimeline ==
  /\ LoadIdle /\ AssetIdle
  /\ op = "getSegmentTimeline"
  /\ input \in SeqsUpTo(TimelineComponents, MaxTriples) \ {<<>>}
  /\ output = Pending

CallGetSegmentTimeline ==
  /\ op = "getSegmentTimeline" /\ output = Pending
  /\ output' = getSegmentTimeline(input)
  /\ UNCHANGED <<op, input, loadVars, assetVars>>

NextTimeline == CallGetSegmentTimeline

SpecTimeline == InitTimeline /\ [][NextTimeline]_vars

\* what the spec's TimelineResolver prescribes for triples whose first has a
\* start time: the cursor at triple i, and the instants of triple i
RepeatCount(S) == IF S.r = NoInt THEN 0 ELSE S.r[1]

RECURSIVE CursorAt(_, _)
CursorAt(Ss, i) ==
  IF Ss[i].t # NoInt THEN Ss[i].t[1]
  ELSE CursorAt(Ss, i - 1) + (RepeatCount(Ss[i - 1]) + 1) * Ss[i - 1].d

RECURSIVE InstantsUpTo(_, _)
InstantsUpTo(Ss, n) ==
  IF n = 0 THEN <<>>
  ELSE InstantsUpTo(Ss, n - 1)
         \o [k \in 1..(RepeatCount(Ss[n]) + 1) |-> CursorAt(Ss, n) + (k - 1) * Ss[n].d]

RECURSIVE SumRepeats(_, _)
SumRepeats(Ss, n) ==
  IF n = 0 THEN 0 ELSE SumRepeats(Ss, n - 1) + RepeatCount(Ss[n]) + 1

TimelineCalled == op = "getSegmentTimeline" /\ output # Pending

\* C6: in explicit-timeline mode, for triples whose first has a start time,
\* getSegmentTimeline emits for each triple t, t+d, ..., t+r*d from a cursor t
\* that is reset by a start time, carried over otherwise and advanced by
\* (r+1)*d; a missing repeat count is 0; [(0,10,2)] gives [0,10,20],
\* [(0,5,0),(-,5,1)] gives [0,5,10]; the length is the sum of (r+1).
C6_ExplicitTimeline ==
  (TimelineCalled /\ input[1].t # NoInt) =>
    /\ ~output.raised
    /\ output.val = InstantsUpTo(input, Len(input))
    /\ Len(output.val) = SumRepeats(input, Len(input))
    /\ (input = <<[t |-> <<0>>, d |-> 10, r |-> <<2>>]>> => output.val = <<0, 10, 20>>)
    /\ (input = <<[t |-> <<0>>, d |-> 5, r |-> <<0>>], [t |-> NoInt, d |-> 5, r |-> <<1>>]>>
          => output.val = <<0, 5, 10>>)

\* a second triple without start time continued from the cursor
C6_Witness ==
  /\ TimelineCalled
  /\ input = <<[t |-> <<0>>, d |-> 5, r |-> NoInt], [t |-> NoInt, d |-> 5, r |-> <<1>>]>>
  /\ ~output.raised
  /\ output.val = <<0, 5, 10>>

-----------------------------------------------------------------------------
(* Python float (IEEE 754 binary64) division, as used by                   *)
(* getInferredSegmentTimeline.  A natural number below 2^56 is a sequence  *)
(* of four limbs, least significant first, in base LimbBase = 2^LimbBits;  *)
(* a positive float is [m, e] with a 53-bit significand 2^52 <= m < 2^53   *)
(* and the value m * 2^e.                                                  *)

LimbBits == 14
LimbBase == 16384
SignificandBits == 53

BigOf(n) == <<n % LimbBase, (n \div LimbBase) % LimbBase, n \div (LimbBase * LimbBase), 0>>

BigZero == <<0, 0, 0, 0>>

RECURSIVE Pow2(_)
Pow2(n) == IF n = 0 THEN 1 ELSE 2 * Pow2(n - 1)

\* limb i of x, 0 outside 1..4
Limb(x, i) == IF i \in 1..4 THEN x[i] ELSE 0

\* x * 2^n for a result below 2^56
BigShiftLeftBy(x, n) ==
  LET q == n \div LimbBits
      r == Pow2(n % LimbBits)
  IN  [i \in 1..4 |-> ((Limb(x, i - q) * r) % LimbBase)
                        + ((Limb(x, i - q - 1) * r) \div LimbBase)]

\* x \div 2^n
BigShiftRightBy(x, n) ==
  LET q == n \div LimbBits
      r == Pow2(n % LimbBits)
  IN  [i \in 1..4 |-> (Limb(x, i + q) \div r)
                        + ((Limb(x, i + q + 1) % r) * (LimbBase \div r))]

\* 2*x + bit
BigDouble(x, bit) ==
  LET a1 == 2 * x[1] + bit
      a2 == 2 * x[2] + (a1 \div LimbBase)
      a3 == 2 * x[3] + (a2 \div LimbBase)
      a4 == 2 * x[4] + (a3 \div LimbBase)
  IN  <<a1 % LimbBase, a2 % LimbBase, a3 % LimbBase, a4 % LimbBase>>

BigGeq(x, y) ==
  IF x[4] # y[4] THEN x[4] > y[4]
  ELSE IF x[3] # y[3] THEN x[3] > y[3]
  ELSE IF x[2] # y[2] THEN x[2] > y[2]
  ELSE x[1] >= y[1]

\* x - y for x >= y
BigSub(x, y) ==
  LET d1 == x[1] - y[1]
      d2 == x[2] - y[2] - (IF d1 < 0 THEN 1 ELSE 0)
      d3 == x[3] - y[3] - (IF d2 < 0 THEN 1 ELSE 0)
      d4 == x[4] - y[4] - (IF d3 < 0 THEN 1 ELSE 0)
  IN  <<d1 % LimbBase, d2 % LimbBase, d3 % LimbBase, d4 % LimbBase>>

BigInc(x) == BigSub(BigDouble(x, 1), x)

BigIsOdd(x) == x[1] % 2 = 1

\* the number of bits of x > 0
BigBitLength(x) ==
  LET top == CHOOSE i \in 1..4 : x[i] # 0 /\ \A j \in (i + 1)..4 : x[j] = 0
      b   == CHOOSE k \in 1..LimbBits : Pow2(k - 1) <= x[top] /\ x[top] < Pow2(k)
  IN  (top - 1) * LimbBits + b

\* the value of a limb sequence below LimbBase^2
BigToInt(x) == x[1] + LimbBase * x[2]

\* scale the divisor, or the dividend, by a power of two so that D <= N < 2D;
\* k is the power applied to D (negative: to N)
FloatDivScale(N, D) ==
  LET k  == BigBitLength(N) - BigBitLength(D)
      N1 == IF k < 0 THEN BigShiftLeftBy(N, 0 - k) ELSE N
      D1 == IF k > 0 THEN BigShiftLeftBy(D, k) ELSE D
  IN  IF BigGeq(N1, D1) THEN [N |-> N1, D |-> D1, k |-> k]
      ELSE [N |-> BigDouble(N1, 0), D |-> D1, k |-> k - 1]

\* long division: one more quotient bit of st.R / D appended to st.q
FloatDivBit(st, D) ==
  LET R2 == BigDouble(st.R, 0)
  IN  IF BigGeq(R2, D) THEN [R |-> BigSub(R2, D), q |-> BigDouble(st.q, 1)]
      ELSE [R |-> R2, q |-> BigDouble(st.q, 0)]

\* four more quotient bits
FloatDivNibble(st, D) ==
  CHOOSE r \in {FloatDivBit(s3, D) :
                  s3 \in {FloatDivBit(s2, D) :
                            s2 \in {FloatDivBit(s1, D) :
                                      s1 \in {FloatDivBit(st, D)}}}} : TRUE

\* 4*n more quotient bits (all 0 once the remainder is 0)
RECURSIVE FloatDivNibbles(_, _, _)
FloatDivNibbles(st0, D, n) ==
  CHOOSE r \in {IF n = 0 THEN st
                ELSE IF st.R = BigZero
                     THEN [R |-> BigZero, q |-> BigShiftLeftBy(st.q, 4 * n)]
                     ELSE FloatDivNibbles(FloatDivNibble(st, D), D, n - 1) :
                  st \in {st0}} : TRUE

\* the quotient bits after the leading 1 and the guard bit after them
FloatDivBody(sc) ==
  CHOOSE r \in {[q |-> body.q, g |-> FloatDivBit([R |-> body.R, q |-> BigZero], sc.D)] :
                  body \in {FloatDivNibbles([R |-> BigSub(sc.N, sc.D), q |-> BigOf(1)], sc.D,
                                            (SignificandBits - 1) \div 4)}} : TRUE

\* round to nearest, ties to even, and renormalise
FloatDivRound(sc, b) ==
  CHOOSE r \in {IF BigBitLength(m) > SignificandBits
                THEN [m |-> BigShiftRightBy(m, 1), e |-> sc.k - (SignificandBits - 1) + 1]
                ELSE [m |-> m, e |-> sc.k - (SignificandBits - 1)] :
                  m \in {IF BigIsOdd(b.g.q) /\ (b.g.R # BigZero \/ BigIsOdd(b.q))
                         THEN BigInc(b.q) ELSE b.q}} : TRUE

\* N / D for positive naturals N, D < 2^53, rounded to nearest, ties to even
FloatDiv(N, D) ==
  CHOOSE r \in {FloatDivRound(sc, b) :
                  sc \in {FloatDivScale(N, D)}, b \in {FloatDivBody(FloatDivScale(N, D))}} : TRUE

\* float(n) for a natural n < 2^28, as the exact quotient n / 1
FloatOf(n) == FloatDiv(BigOf(n), BigOf(1))

\* x / y for positive floats x, y
FloatQuotient(x, y) ==
  CHOOSE r \in {[m |-> FloatDiv(a.m, b.m).m, e |-> FloatDiv(a.m, b.m).e + a.e - b.e] :
                  a \in {x}, b \in {y}} : TRUE

\* int(x) for a positive float x below LimbBase^2: truncation
FloatToInt(x) ==
  CHOOSE r \in {IF a.e >= 0 THEN BigToInt(BigShiftLeftBy(a.m, a.e))
                ELSE IF 0 - a.e >= 4 * LimbBits THEN 0
                ELSE BigToInt(BigShiftRightBy(a.m, 0 - a.e)) :
                  a \in {x}} : TRUE

-----------------------------------------------------------------------------
(* DashVodAsset.getInferredSegmentTimeline.  periodSeconds stands for      *)
(* parse_duration(periodDuration).total_seconds() of a period lasting a    *)
(* whole number of seconds.                                                *)

getInferredSegmentTimeline(startNumber, timescale, segmentTemplateDuration, periodSeconds) ==
  LET segmentSize    == FloatQuotient(FloatOf(segmentTemplateDuration), FloatOf(timescale))
      periodDuration == FloatOf(periodSeconds)
      numberSegments == FloatToInt(FloatQuotient(periodDuration, segmentSize))
  IN  [i \in 1..numberSegments |-> startNumber + i - 1]

MaxTimescale == 7
MaxDuration == 9
MaxPeriod == 10

InferredInputs ==
  [startNumber : {1, 5}, timescale : 1..MaxTimescale,
   duration : 1..MaxDuration, periodSeconds : 1..MaxPeriod]

InitInferred ==
  /\ LoadIdle /\ AssetIdle
  /\ op = "getInferredSegmentTimeline"
  /\ input \in InferredInputs
  /\ output = Pending

CallGetInferredSegmentTimeline ==
  /\ op = "getInferredSegmentTimeline" /\ output = Pending
  /\ output' = Ok(getInferredSegmentTimeline(input.startNumber, input.timescale,
                                             input.duration, input.periodSeconds))
  /\ UNCHANGED <<op, input, loadVars, assetVars>>

NextInferred == CallGetInferredSegmentTimeline

SpecInferred == InitInferred /\ [][NextInferred]_vars

\* C7: in inferred-timeline mode, for positive integer timescale, template
\* duration and period seconds, the result is exactly startNumber ..
\* startNumber+count-1 with count = floor(periodSeconds * timescale /
\* templateDuration); (1, 1, 4, 10 s) gives [1,2]; a period shorter than one
\* segment gives the empty list.
C7_InferredCount ==
  (op = "getInferredSegmentTimeline" /\ output # Pending) =>
    LET count == (input.periodSeconds * input.timescale) \div input.duration
    IN  output.val = [i \in 1..count |-> input.startNumber + i - 1]

-----------------------------------------------------------------------------
(* urllib.parse.urlparse and os.path.normpath, as used by normalizeUrl.    *)
(* The model's URLs are lower-case ASCII without control characters.       *)

Letters == {"a", "b", "c", "d", "e", "f", "g", "h", "i", "j", "k", "l", "m",
            "n", "o", "p", "q", "r", "s", "t", "u", "v", "w", "x", "y", "z"}

SchemeChars == Letters \cup {"0", "1", "2", "3", "4", "5", "6", "7", "8", "9", "+", "-", "."}

\* the first position of s holding one of the characters cs; Len(s)+1 if none
FirstOf(s, cs) ==
  LET hits == {i \in 1..Len(s) : Ch(s, i) \in cs}
  IN  IF hits = {} THEN Len(s) + 1 ELSE CHOOSE i \in hits : \A j \in hits : i <= j

\* the element of a one-element set; {e(v) : v \in {x}} names the value x
\* as v inside e
The(S) == CHOOSE x \in S : TRUE

\* s.partition(sep) without the separator: <<before, after>>
Partition(s, sep) ==
  The({IF i = 0 THEN <<s, "">> ELSE <<Take(s, i - 1), From(s, i + 1)>> : i \in {Find(s, sep)}})

\* urlsplit: the scheme up to the first ':' when it is one
UrlParseScheme(u) ==
  The({IF /\ colon > 1
          /\ Ch(u, 1) \in Letters
          /\ \A i \in 1..(colon - 1) : Ch(u, i) \in SchemeChars
       THEN [scheme |-> Take(u, colon - 1), rest |-> From(u, colon + 1)]
       ELSE [scheme |-> "", rest |-> u] : colon \in {Find(u, ":")}})

\* urlsplit: the netloc after '//' up to the first of '/', '?', '#'
UrlParseNetloc(rest) ==
  IF ~StartsWith(rest, "//") THEN [netloc |-> "", rest |-> rest]
  ELSE The({[netloc |-> Take(From(rest, 3), netEnd - 1), rest |-> From(From(rest, 3), netEnd)] :
              netEnd \in {FirstOf(From(rest, 3), {"/", "?", "#"})}})

\* _splitparams: the first ';' of the last path segment (0: none)
UrlParamsAt(path) ==
  The({The({IF semi = 0 THEN 0 ELSE lastSlash + semi :
              semi \in {Find(From(path, lastSlash + 1), ";")}}) :
         lastSlash \in {RFind(path, "/")}})

\* urlparse: the params of the schemes that use them
UrlParseParams(scheme, path) ==
  The({IF /\ scheme \in {"", "ftp", "hdl", "prospero", "http", "imap", "https", "shttp",
                          "rtsp", "rtspu", "sip", "sips", "mms", "sftp", "tel"}
          /\ semi # 0
       THEN [path |-> Take(path, semi - 1), params |-> From(path, semi + 1)]
       ELSE [path |-> path, params |-> ""] : semi \in {UrlParamsAt(path)}})

\* urlparse(url): [scheme, netloc, path, params, query, fragment]
UrlParse(u) ==
  The({The({The({The({The({
    [scheme |-> s.scheme, netloc |-> n.netloc, path |-> p.path, params |-> p.params,
     query |-> q[2], fragment |-> f[2]] :
      p \in {UrlParseParams(s.scheme, q[1])}}) :
      q \in {Partition(f[1], "?")}}) :
      f \in {Partition(n.rest, "#")}}) :
      n \in {UrlParseNetloc(s.rest)}}) :
      s \in {UrlParseScheme(u)}})

\* the loop of posixpath.normpath over the components of the path
RECURSIVE NormComps(_, _, _)
NormComps(comps, initialSlashes, newComps) ==
  IF comps = <<>> THEN newComps
  ELSE LET comp == Head(comps)
       IN  IF comp \in {"", "."} THEN NormComps(Tail(comps), initialSlashes, newComps)
           ELSE IF \/ comp # ".."
                   \/ (initialSlashes = 0 /\ newComps = <<>>)
                   \/ (newComps # <<>> /\ newComps[Len(newComps)] = "..")
                THEN NormComps(Tail(comps), initialSlashes, Append(newComps, comp))
                ELSE IF newComps # <<>>
                     THEN NormComps(Tail(comps), initialSlashes,
                                    SubSeq(newComps, 1, Len(newComps) - 1))
                     ELSE NormComps(Tail(comps), initialSlashes, newComps)

\* the number of leading slashes normpath keeps
InitialSlashes(path) ==
  IF ~StartsWith(path, "/") THEN 0
  ELSE IF StartsWith(path, "//") /\ ~StartsWith(path, "///") THEN 2
  ELSE 1

\* os.path.normpath (posixpath)
NormPath(path) ==
  IF path = "" THEN "."
  ELSE The({The({IF result = "" THEN "." ELSE result :
                   result \in {(IF initialSlashes = 2 THEN "//"
                                ELSE IF initialSlashes = 1 THEN "/" ELSE "")
                                 \o Join(NormComps(Split(path, "/"), initialSlashes, <<>>), "/")}}) :
              initialSlashes \in {InitialSlashes(path)}})

\* normalizeUrl (the same function in HlsVodAsset.py and DashVodAsset.py)
normalizeUrl(u) ==
  The({The({IF parsedUrl.query # "" THEN (absUrl \o "?") \o parsedUrl.query ELSE absUrl :
              absUrl \in {((parsedUrl.scheme \o "://") \o parsedUrl.netloc)
                            \o NormPath(parsedUrl.path)}}) :
         parsedUrl \in {UrlParse(u)}})

-----------------------------------------------------------------------------
(* HlsVodAsset.py: the attribute lists and the two playlist parsers.       *)

\* the number of double quotes in s
CountQuotes(s) == Cardinality({i \in 1..Len(s) : Ch(s, i) = "\""})

\* the characters \s matches inside one line of a playlist
Whitespace == {" ", "\t"}

RECURSIVE SkipWhitespace(_)
SkipWhitespace(s) ==
  IF s # "" /\ Ch(s, 1) \in Whitespace THEN SkipWhitespace(From(s, 2)) ELSE s

IsSeparatorAt_EveryComma(line, i) == Ch(line, i) = ","

\* ,\s*(?=(?:[^"]*"[^"]*")*[^"]*$) matches at i: a comma with an even
\* number of double quotes between it and the end of the line
IsSeparatorAt(line, i) == Ch(line, i) = "," /\ CountQuotes(From(line, i + 1)) % 2 = 0

\* re.split(r',\s*(?=(?:[^"]*"[^"]*")*[^"]*$)', line)
RECURSIVE SplitAttributes(_)
SplitAttributes(line) ==
  LET seps == {i \in 1..Len(line) : IsSeparatorAt(line, i)}
  IN  IF seps = {} THEN <<line>>
      ELSE LET i == CHOOSE k \in seps : \A j \in seps : k <= j
           IN  <<Take(line, i - 1)>> \o SplitAttributes(SkipWhitespace(From(line, i + 1)))

KeyError(key) == Exc("KeyError", key, None, None)

ValueError == Exc("ValueError", "not enough values to unpack", None, None)

IndexError == Exc("IndexError", "string index out of range", None, None)

\* for keyVal in ...: (key, val) = keyVal.split('=', 1); mediaDict[key] = val.strip('"')
RECURSIVE AttributeDict(_, _)
AttributeDict(keyVals, mediaDict) ==
  IF keyVals = <<>> THEN Ok(mediaDict)
  ELSE LET kv == Split1(Head(keyVals), "=")
       IN  IF Len(kv) < 2 THEN Raise(ValueError)
           ELSE AttributeDict(Tail(keyVals),
                  [k \in DOMAIN mediaDict \cup {kv[1]} |->
                     IF k = kv[1] THEN Strip(kv[2], "\"") ELSE mediaDict[k]])

\* the dictionary of the attribute list after the first ':' of a tag line
MediaDict(line) == AttributeDict(SplitAttributes(Split1(line, ":")[2]), <<>>)

\* the name a line of the master playlist gives: Ok(<<name>>), Ok(<<>>) for
\* a line that adds nothing (name None, or continue), or the exception
MasterLineName(line) ==
  IF StartsWith(line, "#EXT-X-MEDIA:") \/ StartsWith(line, "#EXT-X-I-FRAME-STREAM-INF:")
  THEN LET mediaDict == MediaDict(line)
       IN  IF mediaDict.raised THEN mediaDict
           ELSE IF "URI" \notin DOMAIN mediaDict.val THEN Raise(KeyError("URI"))
           ELSE IF mediaDict.val["URI"] # "" THEN Ok(<<mediaDict.val["URI"]>>)
           ELSE Ok(<<>>)
  ELSE IF line = "" THEN Ok(<<>>)
  ELSE IF Ch(line, 1) # "#" THEN Ok(<<line>>)
  ELSE Ok(<<>>)

\* the name a line of a variant playlist gives
VariantLineName(line) ==
  IF StartsWith(line, "#EXT-X-MAP:") \/ StartsWith(line, "#EXT-X-I-FRAME-STREAM-INF:")
  THEN LET mediaDict == MediaDict(line)
       IN  IF mediaDict.raised THEN mediaDict
           ELSE IF "URI" \notin DOMAIN mediaDict.val THEN Raise(KeyError("URI"))
           ELSE Ok(<<mediaDict.val["URI"]>>)
  ELSE IF line = "" THEN Raise(IndexError)
  ELSE IF Ch(line, 1) # "#" THEN Ok(<<line>>)
  ELSE Ok(<<>>)

\* absoluteUrl of a name found in the manifest at manifestUrl
AbsoluteUrl(manifestUrl, name) ==
  IF name = <<>> \/ name[1] = "" THEN name
  ELSE IF StartsWith(name[1], "http") THEN name
  ELSE <<normalizeUrl((Dirname(manifestUrl) \o "/") \o name[1])>>

AddKey_NoDedup(keys, absoluteUrl) ==
  IF absoluteUrl = <<>> THEN keys ELSE Append(keys, absoluteUrl[1])

\* a key seen again moves to the end
AddKey_MoveToEnd(keys, absoluteUrl) ==
  IF absoluteUrl = <<>> THEN keys
  ELSE Append(SelectSeq(keys, LAMBDA k : k # absoluteUrl[1]), absoluteUrl[1])

\* if not (absoluteUrl is None or absoluteUrl in dict.keys()): dict[absoluteUrl] = 1
\* (the keys of a dict keep their insertion order)
AddKey(keys, absoluteUrl) ==
  IF absoluteUrl = <<>> \/ (\E i \in 1..Len(keys) : keys[i] = absoluteUrl[1])
  THEN keys ELSE Append(keys, absoluteUrl[1])

RECURSIVE ParseMasterLines(_, _, _)
ParseMasterLines(masterManifestUrl, lines, variantsDict) ==
  IF lines = <<>> THEN Ok(variantsDict)
  ELSE LET name == MasterLineName(Head(lines))
       IN  IF name.raised THEN name
           ELSE ParseMasterLines(masterManifestUrl, Tail(lines),
                  AddKey(variantsDict, AbsoluteUrl(masterManifestUrl, name.val)))

\* HlsVodAsset.__parseMasterManifest
parseMasterManifest(masterManifestUrl, masterManifestBody) ==
  ParseMasterLines(masterManifestUrl, SplitLines(masterManifestBody), <<>>)

RECURSIVE ParseVariantLines(_, _, _)
ParseVariantLines(variantManifestUrl, lines, segmentsDict) ==
  IF lines = <<>> THEN Ok(segmentsDict)
  ELSE LET name == VariantLineName(Head(lines))
       IN  IF name.raised THEN name
           ELSE ParseVariantLines(variantManifestUrl, Tail(lines),
                  AddKey(segmentsDict, AbsoluteUrl(variantManifestUrl, name.val)))

\* HlsVodAsset.__parseVariantManifest
parseVariantManifest(variantManifestUrl, variantManifestBody) ==
  ParseVariantLines(variantManifestUrl, SplitLines(variantManifestBody), <<>>)

-----------------------------------------------------------------------------
(* Tag lines of a master playlist, as a function of the line.              *)

MaxAttrs == 3

AttrTags == {"#EXT-X-MEDIA:", "#EXT-X-I-FRAME-STREAM-INF:"}

AttrSeparators == {",", ", "}

\* attributes KEY=value and KEY="quoted value"
AttrSamples ==
  {[key |-> "TYPE",     val |-> "AUDIO",      quoted |-> FALSE],
   [key |-> "NAME",     val |-> "en, US",     quoted |-> TRUE],
   [key |-> "NAME",     val |-> "a,b",        quoted |-> TRUE],
   [key |-> "GROUP-ID", val |-> "g=1,h",      quoted |-> TRUE],
   [key |-> "URI",      val |-> "aud/a.m3u8", quoted |-> TRUE],
   [key |-> "URI",      val |-> "v,1.m3u8",   quoted |-> TRUE],
   [key |-> "URI",      val |-> "v.m3u8",     quoted |-> FALSE]}

\* attribute lists in which no key occurs twice
AttrLists ==
  {as \in SeqsUpTo(AttrSamples, MaxAttrs) \ {<<>>} :
     \A i, j \in 1..Len(as) : as[i].key = as[j].key => i = j}

FormatAttribute(a) ==
  (a.key \o "=") \o (IF a.quoted THEN ("\"" \o a.val) \o "\"" ELSE a.val)

FormatTagLine(in) ==
  in.tag \o Join([i \in 1..Len(in.attrs) |-> FormatAttribute(in.attrs[i])], in.sep)

InitAttr ==
  /\ LoadIdle /\ AssetIdle
  /\ op = "masterLineName"
  /\ input \in [tag : AttrTags, attrs : AttrLists, sep : AttrSeparators]
  /\ output = Pending

CallMasterLineName ==
  /\ op = "masterLineName" /\ output = Pending
  /\ output' = MasterLineName(FormatTagLine(input))
  /\ UNCHANGED <<op, input, loadVars, assetVars>>

NextAttr == CallMasterLineName

SpecAttr == InitAttr /\ [][NextAttr]_vars

\* C10: for a master-playlist line starting with #EXT-X-MEDIA: or
\* #EXT-X-I-FRAME-STREAM-INF:, the attribute list is split only at commas
\* outside double quotes, so the URI attribute is extracted with its exact
\* value, quotes stripped, whatever commas the quoted values hold;
\* TYPE=AUDIO,URI="aud/a.m3u8",NAME="en, US" yields aud/a.m3u8.
C10_UriExtracted ==
  (op = "masterLineName" /\ output # Pending) =>
    \A i \in 1..Len(input.attrs) :
      input.attrs[i].key = "URI" => output = Ok(<<input.attrs[i].val>>)

C10_Witness ==
  /\ op = "masterLineName"
  /\ FormatTagLine(input) = "#EXT-X-MEDIA:TYPE=AUDIO,URI=\"aud/a.m3u8\",NAME=\"en, US\""
  /\ output = Ok(<<"aud/a.m3u8">>)

-----------------------------------------------------------------------------
(* Downloader.py: loadUrl and __loadUrlWorker.                             *)
(* An outcome is what one request obtains: an IOError, or a response with  *)
(* a status, a Content-Type header (None: no such header) and a body.      *)
(* Status codes are the strings "200", "404", ...                          *)

retryCount == 3

retryInterval == 2

IOErrorOutcome == [kind |-> "IOError", status |-> None, contentType |-> None, data |-> None]

Response(status, contentType, data) ==
  [kind |-> "response", status |-> status, contentType |-> contentType, data |-> data]

\* the answer to the next request for u: the server's answers in order, the
\* last one for ever
NextOutcome(u) ==
  LET n == Cardinality({i \in 1..Len(requestLog) : requestLog[i].url = u})
      answers == IF u \in DOMAIN origin THEN origin[u]
                 ELSE <<Response("404", "text/html", "Not Found")>>
  IN  answers[IF n + 1 <= Len(answers) THEN n + 1 ELSE Len(answers)]

\* inferSigV4Signing(url): the globals after it, and whether it raised
inferSigV4Signing(u) ==
  LET parts == Split(u, ".")
  IN  IF Len(parts) < 4
      THEN [raised |-> TRUE, flag |-> SIGV4_SIGN_REQUESTS, region |-> SIGV4_REQUEST_REGION]
      ELSE IF parts[4] # "mediapackagev2"
      THEN [raised |-> FALSE, flag |-> SIGV4_SIGN_REQUESTS, region |-> SIGV4_REQUEST_REGION]
      ELSE IF Len(parts) < 5
      THEN [raised |-> TRUE, flag |-> "True", region |-> SIGV4_REQUEST_REGION]
      ELSE [raised |-> FALSE, flag |-> "True", region |-> parts[5]]

\* the globals as __loadUrlWorker has them when it sends its request
SigningFor(u) ==
  IF SIGV4_SIGN_REQUESTS = None THEN inferSigV4Signing(u)
  ELSE [raised |-> FALSE, flag |-> SIGV4_SIGN_REQUESTS, region |-> SIGV4_REQUEST_REGION]

Result(statusCode, urlPayload, contentType, errMsg) ==
  [statusCode |-> statusCode, urlPayload |-> urlPayload,
   contentType |-> contentType, errorMessage |-> errMsg]

\* what __loadUrlWorker makes of the outcome o of its request
loadUrlWorker(o) ==
  IF o.kind = "IOError" THEN Ok(Result(None, None, None, None))
  ELSE IF o.contentType = None THEN Raise(KeyError("Content-Type"))
  ELSE IF o.status # "200"
       THEN Ok(Result(o.status, None, None,
                      IF o.contentType = "application/json"
                      THEN Replace(o.data, "'", "\"") ELSE None))
       ELSE Ok(Result(o.status, o.data, o.contentType, None))

ShouldAttempt_Inclusive(a) == a <= retryCount

\* while attempt < retryCount
ShouldAttempt(a) == a < retryCount

ReturnsFromLoop_OnResponse(statusCode, urlPayload) == statusCode # None

\* if urlPayload is not None: return ...
ReturnsFromLoop(statusCode, urlPayload) == urlPayload # None

\* loadUrl(caller, u, authHeaders) is entered
CallLoadUrl(u) ==
  /\ loadPc \in {"idle", "returned", "raised"}
  /\ loadPc' = "loop" /\ url' = u /\ attempt' = 0 /\ lastStatusCode' = None
  /\ errorMessage' = None /\ slept' = 0 /\ responses' = <<>> /\ loadRet' = <<>>
  /\ callLog' = Append(callLog, [kind |-> "loadUrl", url |-> u])
  /\ UNCHANGED <<SIGV4_SIGN_REQUESTS, SIGV4_REQUEST_REGION, origin, requestLog, threads>>

\* one iteration of the while loop: a call of __loadUrlWorker and what
\* loadUrl does with its result
LoadUrlAttempt ==
  /\ loadPc = "loop" /\ ShouldAttempt(attempt)
  /\ LET signing == SigningFor(url)
         o       == NextOutcome(url)
         r       == loadUrlWorker(o)
     IN  /\ callLog' = (IF SIGV4_SIGN_REQUESTS = None
                         THEN Append(callLog, [kind |-> "inferSigV4Signing", url |-> url])
                         ELSE callLog)
         /\ SIGV4_SIGN_REQUESTS' = signing.flag
         /\ SIGV4_REQUEST_REGION' = signing.region
         /\ IF signing.raised
            THEN /\ loadPc' = "raised" /\ loadRet' = <<Raise(IndexError)>>
                 /\ UNCHANGED <<requestLog, responses, attempt, slept,
                                lastStatusCode, errorMessage>>
            ELSE /\ requestLog' = Append(requestLog,
                                    [url |-> url, signed |-> signing.flag = "True",
                                     region |-> signing.region])
                 /\ responses' = Append(responses, o)
                 /\ IF r.raised
                    THEN /\ loadPc' = "raised" /\ loadRet' = <<r>>
                         /\ UNCHANGED <<attempt, slept, lastStatusCode, errorMessage>>
                    ELSE /\ errorMessage' = r.val.errorMessage
                         /\ IF ReturnsFromLoop(r.val.statusCode, r.val.urlPayload)
                            THEN /\ loadPc' = "returned" /\ loadRet' = <<r>>
                                 /\ UNCHANGED <<attempt, slept, lastStatusCode>>
                            ELSE /\ attempt' = attempt + 1
                                 /\ slept' = slept + retryInterval
                                 /\ lastStatusCode' = r.val.statusCode
                                 /\ UNCHANGED <<loadPc, loadRet>>
  /\ UNCHANGED <<origin, url, threads>>

\* the loop is left without a payload
LoadUrlGiveUp ==
  /\ loadPc = "loop" /\ ~ShouldAttempt(attempt)
  /\ loadPc' = "returned"
  /\ loadRet' = <<Ok(Result(lastStatusCode, None, None, errorMessage))>>
  /\ UNCHANGED <<SIGV4_SIGN_REQUESTS, SIGV4_REQUEST_REGION, origin, requestLog, callLog, threads, url,
                 attempt, lastStatusCode, errorMessage, slept, responses>>

-----------------------------------------------------------------------------
(* One loadUrl call against a server with any sequence of answers.         *)

MaxAnswers == 4

LoadUrls ==
  {"https://h/a/m.m3u8",
   "https://d1.cloudfront.net/a/m.m3u8",
   "https://c.egress.k.mediapackagev2.us-west-2.amazonaws.com/m.m3u8"}

LoadOutcomes ==
  {IOErrorOutcome,
   Response("404", "application/json", "{'m':1}"),
   Response("500", "text/html", "oops"),
   Response("404", None, ""),
   Response("200", "application/x-mpegURL", "#EXTM3U"),
   Response("200", None, "#EXTM3U")}

InitLoad ==
  /\ AssetIdle /\ CallIdle /\ LoadFresh
  /\ origin \in {[x \in {u} |-> a] : u \in LoadUrls, a \in [1..MaxAnswers -> LoadOutcomes]}

LoadCall ==
  /\ loadPc = "idle"
  /\ \E u \in DOMAIN origin : CallLoadUrl(u)
  /\ UNCHANGED <<assetVars, callVars>>

LoadAttempt == LoadUrlAttempt /\ UNCHANGED <<assetVars, callVars>>

LoadGiveUp == LoadUrlGiveUp /\ UNCHANGED <<assetVars, callVars>>

NextLoad == LoadCall \/ LoadAttempt \/ LoadGiveUp

SpecLoad == InitLoad /\ [][NextLoad]_vars

\* an attempt that obtained a payload, one that obtained a response with an
\* error status, and one that obtained no response
IsSuccess(o) == o.kind = "response" /\ o.status = "200" /\ o.contentType # None

IsHttpError(o) == o.kind = "response" /\ o.status # "200" /\ o.contentType # None

IsTransportFailure(o) == o.kind = "IOError"

Returned == loadPc = "returned" /\ ~loadRet[1].raised

\* C1: whatever the per-attempt outcomes, loadUrl makes at most 3 attempts
\* for one URL; after 3 attempts without payload (3 transport failures
\* included) there is no 4th even if it would succeed, no payload is
\* returned and the status is the one of the last attempt; an attempt
\* k <= 3 that succeeds is the last one and its payload is returned.
C1_RetryBudget ==
  /\ Len(responses) <= 3
  /\ Len(requestLog) <= 3
  /\ (Len(responses) = 3 /\ \A k \in 1..3 : ~IsSuccess(responses[k]) /\ Returned) =>
       /\ loadRet[1].val.urlPayload = None
       /\ loadRet[1].val.statusCode = responses[3].status
  /\ \A k \in 1..Len(responses) :
       IsSuccess(responses[k]) =>
         /\ k = Len(responses)
         /\ Returned
         /\ loadRet[1].val.urlPayload = responses[k].data
         /\ loadRet[1].val.statusCode = "200"

C1_Witness ==
  /\ Returned
  /\ Len(responses) = 3
  /\ \A k \in 1..3 : IsTransportFailure(responses[k])
  /\ IsSuccess(origin[url][4])
  /\ loadRet[1].val = Result(None, None, None, None)

-----------------------------------------------------------------------------
(* DashVodAsset.py: segment lists of an adaptation set.                    *)
(* A parsed MPD is a record tree with the attribute names of the mpegdash  *)
(* library: periods, adaptation_sets, representations, segment_templates,  *)
(* segment_timelines, Ss.  Ids and durations are strings, bandwidth,       *)
(* start_number, timescale and duration are integers.                      *)

Digits == <<"0", "1", "2", "3", "4", "5", "6", "7", "8", "9">>

\* int(s) for a string of decimal digits
RECURSIVE ParseDigits(_)
ParseDigits(s) ==
  IF s = "" THEN 0
  ELSE 10 * ParseDigits(Take(s, Len(s) - 1))
         + (CHOOSE d \in 0..9 : Digits[d + 1] = Ch(s, Len(s)))

\* parse_duration(d).total_seconds() for a duration PT<n>S
ParseDuration(d) == ParseDigits(SubSeq(d, 3, Len(d) - 1))

TypeError == Exc("TypeError", "unsupported operand type(s)", None, None)

ManifestError(msg) == Exc("Exception", msg, None, None)

\* the segments from the last timeline value to the first
RECURSIVE getMediaSegmentList_Reversed(_, _, _, _)
getMediaSegmentList_Reversed(mediaSegmentTemplate, startNumber, mediaSegmentTimes, mpdBaseUrl) ==
  IF mediaSegmentTimes = <<>> THEN <<>>
  ELSE getMediaSegmentList_Reversed(mediaSegmentTemplate,
                                    IF Contains(mediaSegmentTemplate, "$Time$")
                                    THEN startNumber ELSE startNumber + 1,
                                    Tail(mediaSegmentTimes), mpdBaseUrl)
         \o <<normalizeUrl((mpdBaseUrl \o "/")
                 \o (IF Contains(mediaSegmentTemplate, "$Time$")
                     THEN Replace(mediaSegmentTemplate, "$Time$",
                                  ToString(Head(mediaSegmentTimes)))
                     ELSE Replace(mediaSegmentTemplate, "$Number$",
                                  ToString(startNumber))))>>

\* the segments when the counter stays at the start number
RECURSIVE getMediaSegmentList_FixedNumber(_, _, _, _)
getMediaSegmentList_FixedNumber(mediaSegmentTemplate, startNumber, mediaSegmentTimes, mpdBaseUrl) ==
  IF mediaSegmentTimes = <<>> THEN <<>>
  ELSE <<normalizeUrl((mpdBaseUrl \o "/")
            \o (IF Contains(mediaSegmentTemplate, "$Time$")
                THEN Replace(mediaSegmentTemplate, "$Time$",
                             ToString(Head(mediaSegmentTimes)))
                ELSE Replace(mediaSegmentTemplate, "$Number$",
                             ToString(startNumber))))>>
         \o getMediaSegmentList_FixedNumber(mediaSegmentTemplate, startNumber,
                                            Tail(mediaSegmentTimes), mpdBaseUrl)

\* getMediaSegmentList
RECURSIVE getMediaSegmentList(_, _, _, _)
getMediaSegmentList(mediaSegmentTemplate, startNumber, mediaSegmentTimes, mpdBaseUrl) ==
  IF mediaSegmentTimes = <<>> THEN <<>>
  ELSE LET t == Head(mediaSegmentTimes)
           timed == Contains(mediaSegmentTemplate, "$Time$")
           resource == IF timed THEN Replace(mediaSegmentTemplate, "$Time$", ToString(t))
                       ELSE Replace(mediaSegmentTemplate, "$Number$", ToString(startNumber))
       IN  <<normalizeUrl((mpdBaseUrl \o "/") \o resource)>>
             \o getMediaSegmentList(mediaSegmentTemplate,
                                    IF timed THEN startNumber ELSE startNumber + 1,
                                    Tail(mediaSegmentTimes), mpdBaseUrl)

\* the segment templates that apply to a representation (<<>>: none found)
ApplicableTemplates(representation, adaptationSet) ==
  IF representation.segment_templates # <<>> THEN representation.segment_templates
  ELSE adaptationSet.segment_templates

\* the media template with the representation's parameters filled in
MediaSegmentTemplate(segmentTemplate, representation) ==
  Replace(Replace(segmentTemplate.media, "$RepresentationID$", representation.id),
          "$Bandwidth$", ToString(representation.bandwidth))

\* the init template as lines 222-231 fill it in
InitSegmentTemplate(segmentTemplate, representation) ==
  LET mediaSegmentTemplate == MediaSegmentTemplate(segmentTemplate, representation)
      i1 == Replace(segmentTemplate.initialization, "$RepresentationID$", representation.id)
      i2 == IF Contains(i1, "$Bandwidth$")
            THEN Replace(mediaSegmentTemplate, "$Bandwidth$", ToString(representation.bandwidth))
            ELSE i1
  IN  IF Contains(i2, "$Time$") THEN Replace(mediaSegmentTemplate, "$Time$", "i") ELSE i2

\* the times or numbers of the media segments of a template
MediaSegmentTimes(segmentTemplate, period) ==
  IF segmentTemplate.segment_timelines # <<>>
  THEN getSegmentTimeline(segmentTemplate.segment_timelines[1])
  ELSE Ok(getInferredSegmentTimeline(segmentTemplate.start_number, segmentTemplate.timescale,
                                     segmentTemplate.duration, ParseDuration(period.duration)))

\* one iteration of the loop of getAdaptationSetSegmentList
RepresentationSegments(mpdBaseUrl, adaptationSet, period, representation) ==
  LET segmentTemplates == ApplicableTemplates(representation, adaptationSet)
  IN  IF segmentTemplates = <<>>
      THEN Raise(ManifestError("Unable to find Segment Template for Representation "
                                 \o representation.id))
      ELSE IF Len(segmentTemplates) > 1
      THEN Raise(ManifestError("Unsupported DASH Manifest format. Maximum of one segment template per adaptations set"))
      ELSE LET segmentTemplate == segmentTemplates[1]
           IN  The({IF times.raised THEN times
                    ELSE The({IF segmentTemplate.initialization \notin {None, ""}
                              THEN Ok(Append(media,
                                        normalizeUrl((mpdBaseUrl \o "/")
                                          \o InitSegmentTemplate(segmentTemplate,
                                                                 representation))))
                              ELSE Ok(media) :
                                media \in {getMediaSegmentList(
                                             MediaSegmentTemplate(segmentTemplate,
                                                                  representation),
                                             segmentTemplate.start_number, times.val,
                                             mpdBaseUrl)}}) :
                      times \in {MediaSegmentTimes(segmentTemplate, period)}})

RECURSIVE AdaptationSetLoop(_, _, _, _, _)
AdaptationSetLoop(mpdBaseUrl, adaptationSet, period, representations, mediaSegments) ==
  IF representations = <<>> THEN Ok(mediaSegments)
  ELSE The({IF forRepresentation.raised THEN forRepresentation
            ELSE AdaptationSetLoop(mpdBaseUrl, adaptationSet, period, Tail(representations),
                                   mediaSegments \o forRepresentation.val) :
              forRepresentation \in {RepresentationSegments(mpdBaseUrl, adaptationSet, period,
                                                            Head(representations))}})

\* getAdaptationSetSegmentList
getAdaptationSetSegmentList(mpdBaseUrl, adaptationSet, period) ==
  AdaptationSetLoop(mpdBaseUrl, adaptationSet, period, adaptationSet.representations, <<>>)

-----------------------------------------------------------------------------
(* Adaptation sets with any number of templates at either level.           *)

MaxSetTemplates == 3

MaxOwnTemplates == 2

MpdBaseUrl == "https://o.x.y/d"

NumberTemplate ==
  [media |-> "a_$RepresentationID$_$Number$.m4s",
   initialization |-> "a_$RepresentationID$_init.mp4",
   start_number |-> 1, timescale |-> 1, duration |-> 4, segment_timelines |-> <<>>]

TimeTemplate ==
  [media |-> "b_$Bandwidth$_$Time$.m4s",
   initialization |-> None,
   start_number |-> 1, timescale |-> 10, duration |-> 5,
   segment_timelines |-> << <<[t |-> <<0>>, d |-> 5, r |-> <<1>>]>> >>]

SampleTemplates == {NumberTemplate, TimeTemplate}

RepresentationIds == <<"1", "2">>

\* one or two representations, each with up to MaxOwnTemplates templates
SampleRepresentations ==
  {[i \in 1..Len(own) |-> [id |-> RepresentationIds[i], bandwidth |-> 100 * i,
                           segment_templates |-> own[i]]] :
     own \in SeqsUpTo(SeqsUpTo(SampleTemplates, MaxOwnTemplates), Len(RepresentationIds)) \ {<<>>}}

SampleAdaptationSets ==
  [segment_templates : SeqsUpTo(SampleTemplates, MaxSetTemplates),
   representations : SampleRepresentations]

SamplePeriod == [duration |-> "PT8S"]

InitTemplates ==
  /\ LoadIdle /\ AssetIdle
  /\ op = "getAdaptationSetSegmentList"
  /\ input \in [adaptationSet : SampleAdaptationSets, period : {SamplePeriod}]
  /\ output = Pending

CallGetAdaptationSetSegmentList ==
  /\ op = "getAdaptationSetSegmentList" /\ output = Pending
  /\ output' = getAdaptationSetSegmentList(MpdBaseUrl, input.adaptationSet, input.period)
  /\ UNCHANGED <<op, input, loadVars, assetVars>>

NextTemplates == CallGetAdaptationSetSegmentList

SpecTemplates == InitTemplates /\ [][NextTemplates]_vars

IsManifestError(out) == out.raised /\ out.val.exc = "Exception"

\* the template the claim makes apply to a representation
TemplatesBySpec(representation, adaptationSet) ==
  IF representation.segment_templates # <<>> THEN representation.segment_templates
  ELSE adaptationSet.segment_templates

\* the segments of representations 1..n when each uses its one template
RECURSIVE SegmentsBySpec(_, _, _)
SegmentsBySpec(adaptationSet, period, n) ==
  IF n = 0 THEN <<>>
  ELSE LET representation == adaptationSet.representations[n]
           only == [segment_templates |-> TemplatesBySpec(representation, adaptationSet),
                    representations |-> <<>>]
       IN  SegmentsBySpec(adaptationSet, period, n - 1)
             \o RepresentationSegments(MpdBaseUrl, only, period,
                  [representation EXCEPT !.segment_templates = <<>>]).val

\* C8: a representation uses its own segment template when it has one,
\* otherwise the adaptation set's; resolution fails with a manifest-format
\* error if a representation has no template at either level, and whenever
\* more than one template is declared at the adaptation-set level, whether
\* or not the representations carry their own; one shared template and one
\* own template resolve without error.
C8_TemplateSelection ==
  (op = "getAdaptationSetSegmentList" /\ output # Pending) =>
    LET as   == input.adaptationSet
        reps == as.representations
    IN  /\ (\E i \in 1..Len(reps) : TemplatesBySpec(reps[i], as) = <<>>)
             => IsManifestError(output)
        /\ Len(as.segment_templates) > 1 => IsManifestError(output)
        /\ (Len(as.segment_templates) <= 1
              /\ \A i \in 1..Len(reps) : Len(TemplatesBySpec(reps[i], as)) = 1)
             => output = Ok(SegmentsBySpec(as, input.period, Len(reps)))

-----------------------------------------------------------------------------
(* The constructors: __getManifest, the parse loops and the resource set.  *)

\* if statusCode is None or statusCode != 200
ManifestRejected(statusCode) == statusCode = None \/ statusCode # "200"

IsHlsManifest_Any(urlPayload) == TRUE

\* urlPayload[0:7] == '#EXTM3U'
IsHlsManifest(urlPayload) == Take(urlPayload, 7) = "#EXTM3U"

\* the exception of __getManifest for a rejected status
RetrievalError(u, r) ==
  Exc("Exception",
      IF r.errorMessage \notin {None, ""} THEN r.errorMessage
      ELSE "Error received when retrieving manifest",
      u, r.statusCode)

\* HlsVodAsset.__getManifest, given what loadUrl gave
HlsGetManifest(u, ret) ==
  IF ret.raised THEN ret
  ELSE IF ManifestRejected(ret.val.statusCode) THEN Raise(RetrievalError(u, ret.val))
  ELSE IF ret.val.urlPayload # None /\ ~IsHlsManifest(ret.val.urlPayload)
       THEN Raise(Exc("Exception", "Not a HLS manifest", u, ret.val.statusCode))
  ELSE Ok([body |-> ret.val.urlPayload,
           contentType |-> IF ret.val.contentType = "binary/octet-stream"
                           THEN "application/x-mpegURL" ELSE ret.val.contentType])

\* DashVodAsset.__getManifest, given what loadUrl gave
DashGetManifest(u, ret) ==
  IF ret.raised THEN ret
  ELSE IF ManifestRejected(ret.val.statusCode) THEN Raise(RetrievalError(u, ret.val))
  ELSE Ok([body |-> ret.val.urlPayload, contentType |-> ret.val.contentType])

\* the elements of a list
Elements(list) == {list[i] : i \in 1..Len(list)}

\* the lists without repetition of the members of S
RECURSIVE Orders(_)
Orders(S) ==
  IF S = {} THEN {<<>>}
  ELSE UNION {{<<x>> \o rest : rest \in Orders(S \ {x})} : x \in S}

ResourceOrders_NoSet(resources) == {resources}

\* list(set(resources)): the members once each, in any order
ResourceOrders(resources) == Orders(Elements(resources))

\* [resource for resource in allResources if resource != masterManifest]
RECURSIVE ExceptMaster(_, _)
ExceptMaster(resources, master) ==
  IF resources = <<>> THEN <<>>
  ELSE IF Head(resources) = master THEN ExceptMaster(Tail(resources), master)
  ELSE <<Head(resources)>> \o ExceptMaster(Tail(resources), master)

-----------------------------------------------------------------------------
(* MPD documents.  MPEGDASHParser.parse is the inverse of the XML          *)
(* serialisation FormatMpd on the documents of the model; any other body   *)
(* makes it raise.                                                         *)

Attr(name, value) == (((" " \o name) \o "=\"") \o value) \o "\""

FormatS(c) ==
  (("<S" \o (IF c.t = NoInt THEN "" ELSE Attr("t", ToString(c.t[1]))))
     \o Attr("d", ToString(c.d)))
     \o ((IF c.r = NoInt THEN "" ELSE Attr("r", ToString(c.r[1]))) \o "/>")

FormatTimeline(Ss) ==
  ("<SegmentTimeline>" \o Join([i \in 1..Len(Ss) |-> FormatS(Ss[i])], ""))
     \o "</SegmentTimeline>"

FormatTemplate(t) ==
  Join(<<"<SegmentTemplate", Attr("media", t.media),
         IF t.initialization = None THEN "" ELSE Attr("initialization", t.initialization),
         Attr("startNumber", ToString(t.start_number)),
         Attr("timescale", ToString(t.timescale)),
         Attr("duration", ToString(t.duration)), ">",
         Join([i \in 1..Len(t.segment_timelines) |-> FormatTimeline(t.segment_timelines[i])], ""),
         "</SegmentTemplate>">>, "")

FormatTemplates(ts) == Join([i \in 1..Len(ts) |-> FormatTemplate(ts[i])], "")

FormatRepresentation(r) ==
  Join(<<"<Representation", Attr("id", r.id), Attr("bandwidth", ToString(r.bandwidth)), ">",
         FormatTemplates(r.segment_templates), "</Representation>">>, "")

FormatAdaptationSet(a) ==
  Join(<<"<AdaptationSet>", FormatTemplates(a.segment_templates),
         Join([i \in 1..Len(a.representations) |->
                 FormatRepresentation(a.representations[i])], ""),
         "</AdaptationSet>">>, "")

FormatPeriod(p) ==
  Join(<<"<Period", Attr("duration", p.duration), ">",
         Join([i \in 1..Len(p.adaptation_sets) |->
                 FormatAdaptationSet(p.adaptation_sets[i])], ""),
         "</Period>">>, "")

FormatMpd(mpd) ==
  ("<MPD>" \o Join([i \in 1..Len(mpd.periods) |-> FormatPeriod(mpd.periods[i])], ""))
     \o "</MPD>"

Representation(id, bandwidth, templates) ==
  [id |-> id, bandwidth |-> bandwidth, segment_templates |-> templates]

\* one period of 4 s with one adaptation set
OnePeriod(templates, representations) ==
  [duration |-> "PT4S",
   adaptation_sets |-> <<[segment_templates |-> templates,
                          representations |-> representations]>>]

\* a template shared by two representations
MpdShared ==
  [periods |-> <<OnePeriod(<<NumberTemplate>>,
                           <<Representation("1", 100, <<>>), Representation("2", 200, <<>>)>>)>>]

\* two periods with the same representation and init segment
MpdTwoPeriods ==
  [periods |-> <<OnePeriod(<<NumberTemplate>>, <<Representation("1", 100, <<>>)>>),
                 OnePeriod(<<NumberTemplate>>, <<Representation("1", 100, <<>>)>>)>>]

\* a representation with its own template and an explicit timeline
MpdOwn ==
  [periods |-> <<OnePeriod(<<>>, <<Representation("1", 100, <<TimeTemplate>>)>>)>>]

\* no template at either level
MpdNoTemplate ==
  [periods |-> <<OnePeriod(<<>>, <<Representation("1", 100, <<>>)>>)>>]

\* three templates in the adaptation set
MpdThreeTemplates ==
  [periods |-> <<OnePeriod(<<NumberTemplate, TimeTemplate, NumberTemplate>>,
                           <<Representation("1", 100, <<>>)>>)>>]

\* two adaptation sets in the first period and a second period, each
\* representation with its own timeline of two segments
MpdTwoSets ==
  [periods |->
     <<[duration |-> "PT4S",
        adaptation_sets |->
          <<[segment_templates |-> <<>>,
             representations |-> <<Representation("1", 100, <<TimeTemplate>>)>>],
            [segment_templates |-> <<TimeTemplate>>,
             representations |-> <<Representation("2", 200, <<>>)>>]>>],
       OnePeriod(<<>>, <<Representation("3", 300, <<TimeTemplate>>)>>)>>]

SampleMpds ==
  {MpdShared, MpdTwoPeriods, MpdOwn, MpdNoTemplate, MpdThreeTemplates, MpdTwoSets}

ParseError == Exc("ExpatError", "syntax error", None, None)

\* MPEGDASHParser.parse(body)
ParseMpd(body) ==
  The({IF documents = {} THEN Raise(ParseError) ELSE Ok(The(documents)) :
         documents \in {{mpd \in SampleMpds : FormatMpd(mpd) = body}}})

\* the loop over the adaptation sets of a period
RECURSIVE PeriodLoop(_, _, _, _)
PeriodLoop(mpdBaseUrl, period, adaptationSets, mediaSegments) ==
  IF adaptationSets = <<>> THEN Ok(mediaSegments)
  ELSE The({IF listOfSegments.raised THEN listOfSegments
            ELSE PeriodLoop(mpdBaseUrl, period, Tail(adaptationSets),
                            mediaSegments \o listOfSegments.val) :
              listOfSegments \in {getAdaptationSetSegmentList(mpdBaseUrl, Head(adaptationSets),
                                                              period)}})

\* the loop over the periods of the MPD
RECURSIVE MpdLoop(_, _, _)
MpdLoop(mpdBaseUrl, periods, mediaSegments) ==
  IF periods = <<>> THEN Ok(mediaSegments)
  ELSE The({IF upToHere.raised THEN upToHere
            ELSE MpdLoop(mpdBaseUrl, Tail(periods), upToHere.val) :
              upToHere \in {PeriodLoop(mpdBaseUrl, Head(periods),
                                       Head(periods).adaptation_sets, mediaSegments)}})

-----------------------------------------------------------------------------
(* The construction of one HlsVodAsset or DashVodAsset, stepped at its     *)
(* loadUrl calls.  op is the class constructed, input its masterManifest.  *)

\* the constructor raises exc
Fails(exc) == pc' = "failed" /\ error' = exc /\ UNCHANGED asset

\* __init__ up to the loadUrl call of the first __getManifest
Construct ==
  /\ pc = "idle" /\ op \in {"HlsVodAsset", "DashVodAsset"}
  /\ format' = (IF op = "HlsVodAsset" THEN "HLS" ELSE "DASH")
  /\ masterManifest' = input
  /\ masterManifestContentType' = None
  /\ variantManifests' = None /\ variantManifestsData' = <<>>
  /\ mediaSegmentList' = <<>> /\ commonPrefix' = None /\ allResources' = None
  /\ pc' = "master"
  /\ CallLoadUrl(input)
  /\ UNCHANGED <<variantIdx, asset, error, fetchLog, callVars>>

\* lines 67-96 of parseHlsVodAsset
HlsFinish(contentType, variants, data, segments) ==
  \E resources \in {(<<masterManifest>> \o variants) \o segments} :
    \E uniqueResources \in ResourceOrders(resources) :
      \E prefix \in {ComputeCommonPrefix(Elements(uniqueResources))} :
        /\ allResources' = uniqueResources
        /\ IF prefix.raised
           THEN Fails(prefix.val) /\ UNCHANGED commonPrefix
           ELSE /\ commonPrefix' = prefix.val
                /\ pc' = "done"
                /\ asset' = <<[masterManifest |-> masterManifest,
                               masterManifestContentType |-> contentType,
                               variantManifests |-> variants,
                               variantManifestsData |-> data,
                               mediaSegmentList |-> segments,
                               allResources |-> uniqueResources,
                               allResourcesExceptMasterManifest |->
                                 ExceptMaster(uniqueResources, masterManifest),
                               commonPrefix |-> prefix.val]>>
                /\ UNCHANGED error

\* parseHlsVodAsset from the return of the master's loadUrl to the next
\* loadUrl call, or to its end
GotMasterPlaylist ==
  /\ pc = "master" /\ format = "HLS" /\ loadPc \in {"returned", "raised"}
  /\ \E manifest \in {HlsGetManifest(masterManifest, loadRet[1])} :
       IF manifest.raised
       THEN /\ Fails(manifest.val)
            /\ UNCHANGED <<loadVars, masterManifestContentType, variantManifests,
                           variantIdx, allResources, commonPrefix, fetchLog>>
       ELSE \E variants \in {parseMasterManifest(masterManifest, manifest.val.body)} :
              /\ masterManifestContentType' = manifest.val.contentType
              /\ fetchLog' = Append(fetchLog, masterManifest)
              /\ IF variants.raised
                 THEN /\ Fails(variants.val)
                      /\ UNCHANGED <<loadVars, variantManifests, variantIdx,
                                     allResources, commonPrefix>>
                 ELSE /\ variantManifests' = variants.val
                      /\ IF variants.val = <<>>
                         THEN /\ HlsFinish(manifest.val.contentType, <<>>, <<>>, <<>>)
                              /\ UNCHANGED <<loadVars, variantIdx>>
                         ELSE /\ pc' = "variant" /\ variantIdx' = 1
                              /\ CallLoadUrl(variants.val[1])
                              /\ UNCHANGED <<asset, error, allResources, commonPrefix>>
  /\ UNCHANGED <<format, masterManifest, variantManifestsData, mediaSegmentList, callVars>>

\* one iteration of the loop over the variants, from the return of its
\* loadUrl to the next loadUrl call, or to the end of parseHlsVodAsset
GotVariantPlaylist ==
  /\ pc = "variant" /\ loadPc \in {"returned", "raised"}
  /\ \E variant \in {variantManifests[variantIdx]} :
     \E manifest \in {HlsGetManifest(variant, loadRet[1])} :
       IF manifest.raised
       THEN /\ Fails(manifest.val)
            /\ UNCHANGED <<loadVars, variantManifestsData, mediaSegmentList, variantIdx,
                           allResources, commonPrefix, fetchLog>>
       ELSE \E segments \in {parseVariantManifest(variant, manifest.val.body)},
               data \in {[v \in DOMAIN variantManifestsData \cup {variant} |->
                            IF v = variant THEN manifest.val ELSE variantManifestsData[v]]} :
              /\ variantManifestsData' = data
              /\ fetchLog' = Append(fetchLog, variant)
              /\ IF segments.raised
                 THEN /\ Fails(segments.val)
                      /\ UNCHANGED <<loadVars, mediaSegmentList, variantIdx,
                                     allResources, commonPrefix>>
                 ELSE /\ mediaSegmentList' = mediaSegmentList \o segments.val
                      /\ IF variantIdx < Len(variantManifests)
                         THEN /\ variantIdx' = variantIdx + 1
                              /\ CallLoadUrl(variantManifests[variantIdx + 1])
                              /\ UNCHANGED <<pc, asset, error, allResources, commonPrefix>>
                         ELSE /\ HlsFinish(masterManifestContentType, variantManifests, data,
                                           mediaSegmentList \o segments.val)
                              /\ UNCHANGED <<loadVars, variantIdx>>
  /\ UNCHANGED <<format, masterManifest, masterManifestContentType, variantManifests,
                 callVars>>

\* parseDashVodAsset from the return of loadUrl to its end
GotMpd ==
  /\ pc = "master" /\ format = "DASH" /\ loadPc \in {"returned", "raised"}
  /\ \E manifest \in {DashGetManifest(masterManifest, loadRet[1])} :
       IF manifest.raised
       THEN /\ Fails(manifest.val)
            /\ UNCHANGED <<masterManifestContentType, mediaSegmentList, allResources,
                           commonPrefix, fetchLog>>
       ELSE /\ masterManifestContentType' = manifest.val.contentType
            /\ fetchLog' = Append(fetchLog, masterManifest)
            /\ \E mpd \in {ParseMpd(manifest.val.body)} :
                 IF mpd.raised
                 THEN /\ Fails(mpd.val)
                      /\ UNCHANGED <<mediaSegmentList, allResources, commonPrefix>>
                 ELSE \E mediaSegments \in {MpdLoop(Dirname(masterManifest),
                                                    mpd.val.periods, <<>>)} :
                        IF mediaSegments.raised
                        THEN /\ Fails(mediaSegments.val)
                             /\ UNCHANGED <<mediaSegmentList, allResources, commonPrefix>>
                        ELSE \E allSegments \in {Append(mediaSegments.val, masterManifest)} :
                             \E uniqueSegments \in ResourceOrders(allSegments) :
                             \E prefix \in {ComputeCommonPrefix(Elements(uniqueSegments))} :
                               IF prefix.raised
                               THEN /\ Fails(prefix.val)
                                    /\ UNCHANGED <<mediaSegmentList, allResources,
                                                   commonPrefix>>
                               ELSE /\ commonPrefix' = prefix.val
                                    /\ mediaSegmentList' = mediaSegments.val
                                    /\ allResources' = uniqueSegments
                                    /\ pc' = "done"
                                    /\ asset' =
                                         <<[masterManifest |-> masterManifest,
                                            masterManifestContentType |->
                                              manifest.val.contentType,
                                            mediaSegmentList |-> mediaSegments.val,
                                            allResources |-> uniqueSegments,
                                            commonPrefix |-> prefix.val]>>
                                    /\ UNCHANGED error
  /\ UNCHANGED <<loadVars, format, masterManifest, variantManifests, variantIdx,
                 variantManifestsData, callVars>>

AssetLoadAttempt ==
  /\ pc \in {"master", "variant"}
  /\ LoadUrlAttempt
  /\ UNCHANGED <<assetVars, callVars>>

AssetLoadGiveUp ==
  /\ pc \in {"master", "variant"}
  /\ LoadUrlGiveUp
  /\ UNCHANGED <<assetVars, callVars>>

-----------------------------------------------------------------------------
(* Assets and the servers that hold them.                                  *)

MasterUrl == "https://o.x.y/a/m.m3u8"

FirstVariantUrl == "https://o.x.y/a/v1.m3u8"

SecondVariantUrl == "https://o.x.y/a/v2.m3u8"

MpdUrl == "https://o.x.y/d/m.mpd"

\* fewer than four dot-separated parts
ShortUrl == "https://h/a/m.m3u8"

SignedUrl == "https://c.egress.k.mediapackagev2.us-west-2.amazonaws.com/a/m.m3u8"

Serve(contentType, body) == <<Response("200", contentType, body)>>

Flaky(answers) == <<IOErrorOutcome>> \o answers

Down(answers) == <<IOErrorOutcome, IOErrorOutcome, IOErrorOutcome>> \o answers

NotFound == <<Response("404", "application/json", "{'message':'Not Found'}")>>

TwoVariants ==
  "#EXTM3U\n#EXT-X-STREAM-INF:BANDWIDTH=1\nv1.m3u8\n#EXT-X-STREAM-INF:BANDWIDTH=2\nv2.m3u8\n"

\* the first variant referenced from three lines
RepeatedVariant ==
  "#EXTM3U\n#EXT-X-MEDIA:TYPE=AUDIO,URI=\"v1.m3u8\",NAME=\"en, US\"\n\nv1.m3u8\n./v1.m3u8\n"

NoVariants == "#EXTM3U\n"

NotAPlaylist == "<html>oops</html>"

\* a media tag without URI
MediaWithoutUri == "#EXTM3U\n#EXT-X-MEDIA:TYPE=AUDIO,NAME=\"en\"\nv1.m3u8\n"

HlsMasters == {TwoVariants, RepeatedVariant, NoVariants, NotAPlaylist, MediaWithoutUri}

OneSegment == "#EXTM3U\n#EXTINF:4,\ns1.ts\n"

\* an init segment and the same media segment twice
InitAndRepeat == "#EXTM3U\n#EXT-X-MAP:URI=\"init.mp4\"\n#EXTINF:4,\ns1.ts\n#EXTINF:4,\ns1.ts\n"

BlankLine == "#EXTM3U\n\ns2.ts\n"

HlsType == "application/x-mpegURL"

MasterAnswers ==
  {Serve(HlsType, m) : m \in HlsMasters}
    \cup {Flaky(Serve(HlsType, TwoVariants)), Down(Serve(HlsType, TwoVariants)), NotFound,
          Serve("binary/octet-stream", RepeatedVariant)}

FirstVariantAnswers ==
  {Serve(HlsType, OneSegment), Serve(HlsType, InitAndRepeat), Serve(HlsType, NotAPlaylist),
   Serve(HlsType, BlankLine), Flaky(Serve(HlsType, OneSegment)), NotFound}

SecondVariantAnswers ==
  {Serve(HlsType, OneSegment), Serve(HlsType, InitAndRepeat),
   <<Response("500", "text/html", "oops")>>}

HlsWorlds ==
  {[op |-> "HlsVodAsset", master |-> MasterUrl,
    origin |-> (MasterUrl :> m) @@ (FirstVariantUrl :> a) @@ (SecondVariantUrl :> b)] :
     m \in MasterAnswers, a \in FirstVariantAnswers, b \in SecondVariantAnswers}
  \cup {[op |-> "HlsVodAsset", master |-> u, origin |-> (u :> Serve(HlsType, NoVariants))] :
          u \in {ShortUrl, SignedUrl}}

MpdAnswers ==
  {Serve("application/dash+xml", FormatMpd(mpd)) : mpd \in SampleMpds}
    \cup {Serve("application/dash+xml", NotAPlaylist),
          Flaky(Serve("application/dash+xml", FormatMpd(MpdOwn))),
          Down(Serve("application/dash+xml", FormatMpd(MpdOwn))),
          NotFound,
          <<Response("200", None, FormatMpd(MpdOwn))>>}

DashWorlds ==
  {[op |-> "DashVodAsset", master |-> MpdUrl, origin |-> (MpdUrl :> m)] : m \in MpdAnswers}

InitAsset ==
  /\ LoadFresh /\ AssetIdle
  /\ output = Pending
  /\ \E w \in HlsWorlds \cup DashWorlds :
       op = w.op /\ input = w.master /\ origin = w.origin

NextAsset ==
  \/ Construct
  \/ AssetLoadAttempt
  \/ AssetLoadGiveUp
  \/ GotMasterPlaylist
  \/ GotVariantPlaylist
  \/ GotMpd

SpecAsset == InitAsset /\ [][NextAsset]_vars

-----------------------------------------------------------------------------
(* Properties of the construction.                                         *)

\* the manifests of the asset under construction
ManifestsOf ==
  IF format = "HLS" /\ variantManifests # None THEN <<masterManifest>> \o variantManifests
  ELSE <<masterManifest>>

\* the number of requests sent for u
RequestsFor(u) == Cardinality({i \in 1..Len(requestLog) : requestLog[i].url = u})

\* what the server answered to the last request for u
LastAnswer(u) ==
  LET answers == IF u \in DOMAIN origin THEN origin[u]
                 ELSE <<Response("404", "text/html", "Not Found")>>
      n == RequestsFor(u)
  IN  answers[IF n <= Len(answers) THEN n ELSE Len(answers)]

\* the body is a manifest of the asset's format and its references resolve
ParsedOk(u, body) ==
  IF format = "DASH"
  THEN \E mpd \in SampleMpds :
         /\ FormatMpd(mpd) = body
         /\ ~MpdLoop(Dirname(u), mpd.periods, <<>>).raised
  ELSE /\ Len(body) >= 7 /\ SubSeq(body, 1, 7) = "#EXTM3U"
       /\ IF u = masterManifest THEN ~parseMasterManifest(u, body).raised
          ELSE ~parseVariantManifest(u, body).raised

\* the manifest u was requested, its last answer was a 200 with a payload,
\* and the payload was accepted
FetchedAndParsed(u) ==
  /\ RequestsFor(u) >= 1
  /\ LastAnswer(u).kind = "response"
  /\ LastAnswer(u).status = "200"
  /\ LastAnswer(u).contentType # None
  /\ ParsedOk(u, LastAnswer(u).data)

\* C3: resolution is all-or-nothing.  The caller holds an asset (with its
\* mediaSegmentList, allResources and commonPrefix) only when construction
\* has ended without an exception, and then every manifest of the asset
\* was fetched with a 200 and a payload and was parsed successfully; a
\* construction that raised leaves the caller without an asset.
C3_AllOrNothing ==
  /\ pc # "done" => asset = <<>>
  /\ pc = "failed" => error # NoExc
  /\ pc = "done" =>
       /\ asset # <<>> /\ error = NoExc
       /\ asset[1].commonPrefix # None /\ asset[1].allResources # None
       /\ \A i \in 1..Len(ManifestsOf) : FetchedAndParsed(ManifestsOf[i])

\* a variant failed after another one had given its segments
C3_Witness ==
  /\ pc = "failed" /\ format = "HLS"
  /\ mediaSegmentList # <<>>
  /\ error.httpError = "500"
  /\ asset = <<>>

\* the URLs an asset is made of
ProducedResources(a) ==
  ({a.masterManifest} \cup Elements(a.mediaSegmentList))
    \cup (IF format = "HLS" THEN Elements(a.variantManifests) ELSE {})

\* C4: after a successful resolution allResources holds no URL twice and
\* holds exactly the master manifest URL, for HLS the variant manifest
\* URLs, and the segment URLs the parser produced.
C4_ResourceSet ==
  pc = "done" =>
    /\ \A i, j \in 1..Len(asset[1].allResources) :
         asset[1].allResources[i] = asset[1].allResources[j] => i = j
    /\ Elements(asset[1].allResources) = ProducedResources(asset[1])

\* the init segment was produced for both periods
C4_Witness ==
  /\ pc = "done" /\ format = "DASH"
  /\ Cardinality({i \in 1..Len(asset[1].mediaSegmentList) :
                    asset[1].mediaSegmentList[i] = "https://o.x.y/d/a_1_init.mp4"}) = 2
  /\ Len(asset[1].allResources) = 3

\* the variant playlists fetched so far, in order
VariantFetches == IF fetchLog = <<>> THEN <<>> ELSE Tail(fetchLog)

\* C9: in one HLS resolution no variant playlist URL is fetched and parsed
\* twice, however many lines of the master playlist name it, and
\* variantManifestsData holds one body for each variant URL fetched: the
\* one the server gave; at the end these are the variants of the master.
C9_VariantFetchedOnce ==
  format = "HLS" =>
    /\ \A i, j \in 1..Len(VariantFetches) : VariantFetches[i] = VariantFetches[j] => i = j
    /\ DOMAIN variantManifestsData = Elements(VariantFetches)
    /\ \A v \in DOMAIN variantManifestsData :
         variantManifestsData[v].body = LastAnswer(v).data
    /\ pc = "done" =>
         /\ VariantFetches = variantManifests
         /\ asset[1].variantManifestsData = variantManifestsData

\* the master names its one variant on three lines
C9_Witness ==
  /\ pc = "done" /\ format = "HLS"
  /\ LastAnswer(masterManifest).data = RepeatedVariant
  /\ fetchLog = <<masterManifest, FirstVariantUrl>>
  /\ RequestsFor(FirstVariantUrl) = 1

-----------------------------------------------------------------------------
(* normalizeUrl on absolute http and https URLs.                           *)

MaxComponents == 3

UrlSchemes == {"http", "https"}

UrlHosts == {"h", "o.x.y"}

UrlComponents == {"a", "v.m3u8", ".", "..", ""}

UrlQueries == {"", "t=1"}

\* rooted: the URL has a path, '/' followed by the components
AbsoluteUrls ==
  [scheme : UrlSchemes, host : UrlHosts, rooted : {TRUE},
   components : SeqsUpTo(UrlComponents, MaxComponents), query : UrlQueries]
    \cup [scheme : UrlSchemes, host : UrlHosts, rooted : {FALSE},
          components : {<<>>}, query : UrlQueries]

FormatUrl(u) ==
  (((u.scheme \o "://") \o u.host)
     \o (IF u.rooted THEN "/" \o Join(u.components, "/") ELSE ""))
     \o (IF u.query = "" THEN "" ELSE "?" \o u.query)

InitNormalize ==
  /\ LoadIdle /\ AssetIdle
  /\ op = "normalizeUrl"
  /\ input \in AbsoluteUrls
  /\ output = Pending

CallNormalizeUrl ==
  /\ op = "normalizeUrl" /\ output = Pending
  /\ output' = Ok(normalizeUrl(FormatUrl(input)))
  /\ UNCHANGED <<op, input, loadVars, assetVars>>

NextNormalize == CallNormalizeUrl

SpecNormalize == InitNormalize /\ [][NextNormalize]_vars

\* no '.', '..' or empty component in the path
NoRedundantComponents(u) ==
  \A i \in 1..Len(u.components) : u.components[i] \notin {".", "..", ""}

\* C11: for every absolute http/https URL u,
\* normalizeUrl(normalizeUrl(u)) = normalizeUrl(u), and a URL without
\* redundant path components (an empty path or a query string included)
\* is returned unchanged.
C11_Idempotent ==
  (op = "normalizeUrl" /\ output # Pending) =>
    /\ normalizeUrl(output.val) = output.val
    /\ NoRedundantComponents(input) => output.val = FormatUrl(input)

-----------------------------------------------------------------------------
(* The order of the segment list.                                          *)

\* the lists of a list, one after the other
RECURSIVE Concat(_)
Concat(lists) == IF lists = <<>> THEN <<>> ELSE Head(lists) \o Concat(Tail(lists))

\* the members of a set of numbers, ascending
RECURSIVE Ascending(_)
Ascending(S) ==
  IF S = {} THEN <<>>
  ELSE LET least == CHOOSE n \in S : \A m \in S : n <= m
       IN  <<least>> \o Ascending(S \ {least})

\* the entries of a list at their first occurrence, in the list's order
FirstOccurrences(list) ==
  LET firsts == Ascending({i \in 1..Len(list) : \A j \in 1..(i - 1) : list[j] # list[i]})
  IN  [k \in 1..Len(firsts) |-> list[firsts[k]]]

\* the i-th media URL of a representation: the template with the i-th
\* timeline value, or with startNumber + i - 1
MediaInOrder(mpdBaseUrl, segmentTemplate, representation, times) ==
  LET media == MediaSegmentTemplate(segmentTemplate, representation)
  IN  [i \in 1..Len(times) |->
         normalizeUrl((mpdBaseUrl \o "/")
           \o (IF Contains(media, "$Time$") THEN Replace(media, "$Time$", ToString(times[i]))
               ELSE Replace(media, "$Number$",
                            ToString(segmentTemplate.start_number + i - 1))))]

\* the segments of one representation: its media segments, then its init
\* segment if it has one
RepresentationInOrder(mpdBaseUrl, adaptationSet, period, representation) ==
  LET segmentTemplate == ApplicableTemplates(representation, adaptationSet)[1]
  IN  MediaInOrder(mpdBaseUrl, segmentTemplate, representation,
                   MediaSegmentTimes(segmentTemplate, period).val)
        \o (IF segmentTemplate.initialization \in {None, ""} THEN <<>>
            ELSE <<normalizeUrl((mpdBaseUrl \o "/")
                     \o InitSegmentTemplate(segmentTemplate, representation))>>)

\* the segments of an MPD in document order
MpdInOrder(mpdBaseUrl, mpd) ==
  Concat([p \in 1..Len(mpd.periods) |->
    Concat([a \in 1..Len(mpd.periods[p].adaptation_sets) |->
      Concat([r \in 1..Len(mpd.periods[p].adaptation_sets[a].representations) |->
        RepresentationInOrder(mpdBaseUrl, mpd.periods[p].adaptation_sets[a], mpd.periods[p],
                              mpd.periods[p].adaptation_sets[a].representations[r])])])])

\* the segments of a variant playlist in the order of its lines
VariantInOrder(variant, body) ==
  LET lines == SplitLines(body)
      naming == Ascending({i \in 1..Len(lines) :
                  /\ lines[i] # ""
                  /\ (Ch(lines[i], 1) # "#" \/ StartsWith(lines[i], "#EXT-X-MAP:"))})
  IN  FirstOccurrences([k \in 1..Len(naming) |->
        AbsoluteUrl(variant, VariantLineName(lines[naming[k]]).val)[1]])

\* C12: the segment list is in manifest order.  For DASH the segments of a
\* representation are the expansions of its timeline values (or of
\* startNumber, startNumber + 1, ...) in that order, and the asset's list
\* follows the document order of periods, adaptation sets and
\* representations; for HLS the segments of each variant are in the order
\* of the lines of its playlist, variant after variant.
C12_ManifestOrder ==
  pc = "done" =>
    IF format = "DASH"
    THEN asset[1].mediaSegmentList
           = MpdInOrder(Dirname(masterManifest),
                        The({mpd \in SampleMpds :
                               FormatMpd(mpd) = LastAnswer(masterManifest).data}))
    ELSE asset[1].mediaSegmentList
           = Concat([i \in 1..Len(variantManifests) |->
                       VariantInOrder(variantManifests[i],
                                      LastAnswer(variantManifests[i]).data)])

\* three representations in two periods, two segments each
C12_Witness ==
  /\ pc = "done" /\ format = "DASH"
  /\ LastAnswer(masterManifest).data = FormatMpd(MpdTwoSets)
  /\ Len(asset[1].mediaSegmentList) = 6
  /\ asset[1].mediaSegmentList[1] = "https://o.x.y/d/b_100_0.m4s"
  /\ asset[1].mediaSegmentList[6] = "https://o.x.y/d/b_300_5.m4s"

-----------------------------------------------------------------------------
(* One process fetching from several hosts, one loadUrl call after another. *)

MaxFetches == 3

PlainUrl == "https://d1.cloudfront.net/a/m.m3u8"

WestUrl == "https://c.egress.k.mediapackagev2.us-west-2.amazonaws.com/a/m.m3u8"

EastUrl == "https://c.egress.k.mediapackagev2.us-east-1.amazonaws.com/a/m.m3u8"

ProcessUrls == {PlainUrl, WestUrl, EastUrl, ShortUrl}

Unreachable == <<IOErrorOutcome>>

ProcessAnswers ==
  {Serve(HlsType, NoVariants), Flaky(Serve(HlsType, NoVariants)), Unreachable}

\* the number of loadUrl calls among the first k entries of callLog
LoadUrlCalls(k) == Cardinality({i \in 1..k : callLog[i].kind = "loadUrl"})

InitProcess ==
  /\ LoadFresh /\ AssetIdle /\ CallIdle
  /\ origin \in [ProcessUrls -> ProcessAnswers]

ProcessCall ==
  /\ loadPc \in {"idle", "returned", "raised"}
  /\ LoadUrlCalls(Len(callLog)) < MaxFetches
  /\ \E u \in DOMAIN origin : CallLoadUrl(u)
  /\ UNCHANGED <<assetVars, callVars>>

NextProcess == ProcessCall \/ LoadAttempt \/ LoadGiveUp

SpecProcess == InitProcess /\ [][NextProcess]_vars

\* the first loadUrl call is for a URL inferSigV4Signing can decide on
FirstFetchDecides == callLog # <<>> /\ Len(Split(callLog[1].url, ".")) >= 4

\* C13: the signing mode is decided by the first fetch and then stable:
\* inferSigV4Signing runs during the first loadUrl call only, and every
\* request of the process is sent with the flag and the region the first
\* request was sent with.
C13_SigningStable ==
  FirstFetchDecides =>
    /\ \A k \in 1..Len(callLog) :
         callLog[k].kind = "inferSigV4Signing" => LoadUrlCalls(k) = 1
    /\ \A i \in 1..Len(requestLog) :
         /\ requestLog[i].signed = requestLog[1].signed
         /\ requestLog[i].region = requestLog[1].region

\* the host is a MediaPackage V2 endpoint
IsManagedOrigin(u) == Contains(u, ".mediapackagev2.")

\* C14: a request is signed only when its own host is a mediapackagev2
\* endpoint; a fetch from any other host, whatever the shape of its URL and
\* whatever was fetched before, sends its request unsigned.
C14_SignedOnlyOwnHost ==
  /\ \A i \in 1..Len(requestLog) :
       requestLog[i].signed => IsManagedOrigin(requestLog[i].url)
  /\ (loadPc \in {"returned", "raised"} /\ ~IsManagedOrigin(url)) =>
       /\ responses # <<>>
       /\ ~requestLog[Len(requestLog)].signed

-----------------------------------------------------------------------------
(* One loadUrl call against a server whose responses declare their length. *)

\* a response with a Content-Length header: response.headers holds it, and
\* __loadUrlWorker reads the status, the Content-Type and the data
ResponseWithLength(status, contentType, data, contentLength) ==
  [kind |-> "response", status |-> status, contentType |-> contentType,
   data |-> data, contentLength |-> contentLength]

CompleteBody == "#EXTM3U\nv1.m3u8\n"

TruncatedBody == "#EXTM3U\nv1"

LengthOutcomes ==
  {IOErrorOutcome,
   Response("404", "text/html", "oops"),
   ResponseWithLength("200", HlsType, CompleteBody, Len(CompleteBody)),
   ResponseWithLength("200", HlsType, TruncatedBody, Len(CompleteBody))}

InitLength ==
  /\ AssetIdle /\ CallIdle /\ LoadFresh
  /\ origin \in {[x \in {u} |-> a] : u \in LoadUrls, a \in [1..MaxAnswers -> LengthOutcomes]}

SpecLength == InitLength /\ [][NextLoad]_vars

\* the body received is not as long as the response's Content-Length says
LengthMismatch(o) ==
  /\ o.kind = "response" /\ "contentLength" \in DOMAIN o
  /\ o.contentLength # Len(o.data)

\* C15: an attempt whose response has a Content-Length other than the size of
\* the body received is a failed attempt: loadUrl does not return after it
\* with that body as payload, and goes on to the next attempt while one of the
\* retryCount attempts is left.
C15_LengthMismatchRetried ==
  Returned =>
    \A k \in 1..Len(responses) :
      LengthMismatch(responses[k]) =>
        /\ loadRet[1].val.urlPayload # responses[k].data
        /\ k < Len(responses) \/ k = retryCount

-----------------------------------------------------------------------------
(* Segment lists of templates with every placeholder, and of any timeline. *)

MaxTimes == 3

SegmentMedia ==
  {"a_$RepresentationID$_$Number$.m4s", "b_$Bandwidth$_$Time$.m4s", "c_$Number$_$Time$.m4s"}

SegmentInits ==
  {None, "init.mp4", "i_$RepresentationID$.mp4", "i_$Bandwidth$.mp4", "i_$Time$.mp4",
   "i_$RepresentationID$_$Bandwidth$_$Time$.mp4"}

SegmentTimelines ==
  {<<>>,
   << <<[t |-> <<0>>, d |-> 5, r |-> <<1>>]>> >>,
   << <<[t |-> <<7>>, d |-> 5, r |-> NoInt], [t |-> NoInt, d |-> 10, r |-> <<2>>]>> >>}

SegmentTemplates ==
  [media : SegmentMedia, initialization : SegmentInits, start_number : {1, 5},
   timescale : {1}, duration : {4}, segment_timelines : SegmentTimelines]

\* one or two representations under one shared template
SegmentAdaptationSets ==
  {[segment_templates |-> <<t>>,
    representations |-> [i \in 1..n |-> [id |-> RepresentationIds[i], bandwidth |-> 100 * i,
                                         segment_templates |-> <<>>]]] :
     t \in SegmentTemplates, n \in 1..Len(RepresentationIds)}

MediaListInputs ==
  [template : {"a_$Number$.m4s", "b_$Time$.m4s", "c_$Number$_$Time$.m4s"},
   startNumber : {1, 5},
   times : SeqsUpTo({0, 5, 10}, MaxTimes)]

InitSegments ==
  /\ LoadIdle /\ AssetIdle
  /\ output = Pending
  /\ \/ /\ op = "getAdaptationSetSegmentList"
        /\ input \in [adaptationSet : SegmentAdaptationSets, period : {SamplePeriod}]
     \/ /\ op = "getMediaSegmentList"
        /\ input \in MediaListInputs

CallGetMediaSegmentList ==
  /\ op = "getMediaSegmentList" /\ output = Pending
  /\ output' = Ok(getMediaSegmentList(input.template, input.startNumber, input.times,
                                      MpdBaseUrl))
  /\ UNCHANGED <<op, input, loadVars, assetVars>>

NextSegments == CallGetAdaptationSetSegmentList \/ CallGetMediaSegmentList

SpecSegments == InitSegments /\ [][NextSegments]_vars

\* the init template with the representation's id and bandwidth and 'i' for
\* $Time$
InitBySpec(segmentTemplate, representation) ==
  Replace(Replace(Replace(segmentTemplate.initialization,
                          "$RepresentationID$", representation.id),
                  "$Bandwidth$", ToString(representation.bandwidth)),
          "$Time$", "i")

\* C16: when the segment template declares an initialization template, each
\* representation's segments are its media segments followed by exactly one
\* init URL, and that URL is the initialization template with
\* $RepresentationID$ and $Bandwidth$ replaced by the representation's id
\* and bandwidth and $Time$ by 'i'.
C16_InitFromInitTemplate ==
  (op = "getAdaptationSetSegmentList" /\ output # Pending /\ ~output.raised) =>
    LET as == input.adaptationSet
        segmentTemplate == as.segment_templates[1]
        n == Len(MediaSegmentTimes(segmentTemplate, input.period).val)
    IN  segmentTemplate.initialization # None =>
          /\ Len(output.val) = Len(as.representations) * (n + 1)
          /\ \A i \in 1..Len(as.representations) :
               output.val[i * (n + 1)]
                 = (MpdBaseUrl \o "/") \o InitBySpec(segmentTemplate, as.representations[i])

\* C17: getMediaSegmentList returns one URL per timeline value; with $Time$
\* in the template the k-th URL has the k-th timeline value for $Time$ and no
\* counter is used; otherwise the k-th URL has startNumber + k - 1 for
\* $Number$, whatever the timeline values are.
C17_OneUrlPerTime ==
  (op = "getMediaSegmentList" /\ output # Pending) =>
    /\ ~output.raised
    /\ Len(output.val) = Len(input.times)
    /\ \A k \in 1..Len(input.times) :
         output.val[k]
           = (MpdBaseUrl \o "/")
               \o (IF Contains(input.template, "$Time$")
                   THEN Replace(input.template, "$Time$", ToString(input.times[k]))
                   ELSE Replace(input.template, "$Number$",
                                ToString(input.startNumber + k - 1)))

C17_Witness ==
  /\ op = "getMediaSegmentList" /\ output # Pending
  /\ input.template = "a_$Number$.m4s" /\ input.startNumber = 5
  /\ input.times = <<0, 0, 10>>
  /\ output = Ok(<<"https://o.x.y/d/a_5.m4s", "https://o.x.y/d/a_6.m4s",
                   "https://o.x.y/d/a_7.m4s">>)

-----------------------------------------------------------------------------
(* The two playlist parsers on playlists of any lines.                     *)

MaxLines == 3

MasterLines ==
  {"#EXTM3U", "", "#EXT-X-STREAM-INF:BANDWIDTH=1", "v1.m3u8", "v2.m3u8", "../a/v1.m3u8",
   "#EXT-X-MEDIA:TYPE=AUDIO,URI=\"v2.m3u8\"",
   "#EXT-X-MEDIA:TYPE=AUDIO,NAME=\"en\"",
   "#EXT-X-I-FRAME-STREAM-INF:BANDWIDTH=1"}

VariantLines ==
  {"#EXTM3U", "", "#EXTINF:4,", "s1.ts", "s2.ts", "./s1.ts", "https://c.x.y/s1.ts",
   "#EXT-X-MAP:URI=\"init.mp4\"",
   "#EXT-X-I-FRAME-STREAM-INF:URI=\"i.m3u8\""}

\* the playlist with these lines
Playlist(lines) == IF lines = <<>> THEN "" ELSE Join(lines, "\n") \o "\n"

InitPlaylist ==
  /\ LoadIdle /\ AssetIdle
  /\ output = Pending
  /\ \/ op = "parseMasterManifest" /\ input \in SeqsUpTo(MasterLines, MaxLines)
     \/ op = "parseVariantManifest" /\ input \in SeqsUpTo(VariantLines, MaxLines)

CallParseMasterManifest ==
  /\ op = "parseMasterManifest" /\ output = Pending
  /\ output' = parseMasterManifest(MasterUrl, Playlist(input))
  /\ UNCHANGED <<op, input, loadVars, assetVars>>

CallParseVariantManifest ==
  /\ op = "parseVariantManifest" /\ output = Pending
  /\ output' = parseVariantManifest(FirstVariantUrl, Playlist(input))
  /\ UNCHANGED <<op, input, loadVars, assetVars>>

NextPlaylist == CallParseMasterManifest \/ CallParseVariantManifest

SpecPlaylist == InitPlaylist /\ [][NextPlaylist]_vars

\* the resolved references of the lines of a playlist, line after line
ResolvedReferences ==
  Concat([i \in 1..Len(input) |->
            IF op = "parseMasterManifest"
            THEN AbsoluteUrl(MasterUrl, MasterLineName(input[i]).val)
            ELSE AbsoluteUrl(FirstVariantUrl, VariantLineName(input[i]).val)])

\* C18: the list a parser returns holds each resolved URL of the playlist
\* once, at the place of its first occurrence: a reference to a URL already
\* in the list neither adds an entry nor moves the earlier one.
C18_FirstOccurrenceOrder ==
  (op \in {"parseMasterManifest", "parseVariantManifest"} /\ output # Pending
     /\ ~output.raised) =>
    output.val = FirstOccurrences(ResolvedReferences)

C18_Witness ==
  /\ op = "parseMasterManifest"
  /\ input = <<"v1.m3u8", "v2.m3u8", "../a/v1.m3u8">>
  /\ output = Ok(<<FirstVariantUrl, SecondVariantUrl>>)

\* a line of a variant playlist that gives a segment: the initialization-map
\* tag, or a line that is not blank and does not start with '#'
IsSegmentLine(line) == line # "" /\ (Ch(line, 1) # "#" \/ StartsWith(line, "#EXT-X-MAP:"))

\* C19: a blank line and a '#' line other than the initialization-map tag
\* add nothing to the segments of a variant playlist: the playlist is parsed
\* without failure and its segment list is that of the playlist without
\* these lines.
C19_BlankLineIgnored ==
  (op = "parseVariantManifest" /\ output # Pending) =>
    /\ ~output.raised
    /\ output = parseVariantManifest(FirstVariantUrl,
                                     Playlist(SelectSeq(input, IsSegmentLine)))

\* a media or I-frame tag line with no URI attribute
IsTagWithoutUri(line) ==
  /\ StartsWith(line, "#EXT-X-MEDIA:") \/ StartsWith(line, "#EXT-X-I-FRAME-STREAM-INF:")
  /\ "URI" \notin DOMAIN MediaDict(line).val

\* C20: a media or I-frame tag line without URI attribute adds no variant
\* and does not fail the parse: the variants are those of the master
\* playlist without these lines.
C20_TagWithoutUriSkipped ==
  (op = "parseMasterManifest" /\ output # Pending) =>
    /\ ~output.raised
    /\ output = parseMasterManifest(MasterUrl,
                  Playlist(SelectSeq(input, LAMBDA line : ~IsTagWithoutUri(line))))

-----------------------------------------------------------------------------
(* The time loadUrl spends in time.sleep.                                   *)

\* C21: when loadUrl returns, it has waited at most retryInterval times the
\* number of its attempts less one: it waits between two attempts only, so
\* retryInterval * (retryCount - 1) when all attempts failed, and not after
\* the last attempt.
C21_WaitBetweenAttempts ==
  Returned => slept <= retryInterval * (Len(responses) - 1)

-----------------------------------------------------------------------------
(* What the exception of a failed construction tells the caller.           *)

\* the exceptions the constructors raise themselves: Exception({...})
IsFatalError == pc = "failed" /\ error.exc = "Exception"

\* C22: the exception of a failed resolution carries the URL of the manifest
\* that could not be used, a message, and the status of the last response
\* for that URL when there was one; for retrieval errors, for the
\* not-a-manifest error and for the manifest-format errors alike.
C22_ErrorCarriesUrl ==
  IsFatalError =>
    /\ error.error \notin {None, ""}
    /\ error.url \in Elements(ManifestsOf)
    /\ LastAnswer(error.url).kind = "response"
         => error.httpError = LastAnswer(error.url).status

-----------------------------------------------------------------------------
(* First use of the Downloader by concurrent threads: each thread runs     *)
(* __loadUrlWorker once, and a step is one access to the module globals.   *)

MaxThreads == 2

\* five dot-separated parts and no mediapackagev2 host
LongPlainUrl == "https://d1.cdn.example.co.uk/a/m.m3u8"

ThreadUrls == {WestUrl, EastUrl, PlainUrl, LongPlainUrl, ShortUrl}

InitThreads ==
  /\ AssetIdle /\ CallIdle
  /\ loadPc = "idle" /\ url = None /\ attempt = 0 /\ lastStatusCode = None
  /\ errorMessage = None /\ slept = 0 /\ responses = <<>> /\ loadRet = <<>>
  /\ SIGV4_SIGN_REQUESTS = None /\ SIGV4_REQUEST_REGION = None
  /\ requestLog = <<>> /\ callLog = <<>> /\ origin = <<>>
  /\ threads \in {[t \in 1..MaxThreads |-> [url |-> urls[t], at |-> "flagIsNone"]] :
                    urls \in [1..MaxThreads -> ThreadUrls]}

\* thread t moves on to position at, the rest of the process unchanged
MovesTo(t, at) ==
  /\ threads' = [threads EXCEPT ![t].at = at]
  /\ UNCHANGED <<origin, callLog, loadPc, url, attempt, lastStatusCode, errorMessage, slept,
                 responses, loadRet, assetVars, callVars>>

\* line 68: if SIGV4_SIGN_REQUESTS is None
TestFlagIsNone ==
  \E t \in DOMAIN threads :
    /\ threads[t].at = "flagIsNone"
    /\ MovesTo(t, IF SIGV4_SIGN_REQUESTS = None THEN "inferFlag" ELSE "flag")
    /\ UNCHANGED <<SIGV4_SIGN_REQUESTS, SIGV4_REQUEST_REGION, requestLog>>

\* lines 155-156: if url.split('.')[3] == 'mediapackagev2': SIGV4_SIGN_REQUESTS = True
InferFlag ==
  \E t \in DOMAIN threads :
    /\ threads[t].at = "inferFlag"
    /\ \E parts \in {Split(threads[t].url, ".")} :
         IF Len(parts) < 4
         THEN MovesTo(t, "raised") /\ UNCHANGED SIGV4_SIGN_REQUESTS
         ELSE /\ MovesTo(t, "inferTest")
              /\ SIGV4_SIGN_REQUESTS' = (IF parts[4] = "mediapackagev2" THEN "True"
                                         ELSE SIGV4_SIGN_REQUESTS)
    /\ UNCHANGED <<SIGV4_REQUEST_REGION, requestLog>>

\* line 162: if SIGV4_SIGN_REQUESTS
InferTest ==
  \E t \in DOMAIN threads :
    /\ threads[t].at = "inferTest"
    /\ MovesTo(t, IF SIGV4_SIGN_REQUESTS = "True" THEN "inferRegion" ELSE "flag")
    /\ UNCHANGED <<SIGV4_SIGN_REQUESTS, SIGV4_REQUEST_REGION, requestLog>>

\* line 163: SIGV4_REQUEST_REGION = url.split('.')[4]
InferRegion ==
  \E t \in DOMAIN threads :
    /\ threads[t].at = "inferRegion"
    /\ \E parts \in {Split(threads[t].url, ".")} :
         IF Len(parts) < 5
         THEN MovesTo(t, "raised") /\ UNCHANGED SIGV4_REQUEST_REGION
         ELSE MovesTo(t, "flag") /\ SIGV4_REQUEST_REGION' = parts[5]
    /\ UNCHANGED <<SIGV4_SIGN_REQUESTS, requestLog>>

\* lines 72-77: if SIGV4_SIGN_REQUESTS: ... else: the unsigned request
TestFlag ==
  \E t \in DOMAIN threads :
    /\ threads[t].at = "flag"
    /\ IF SIGV4_SIGN_REQUESTS = "True"
       THEN MovesTo(t, "sign") /\ UNCHANGED requestLog
       ELSE /\ MovesTo(t, "sent")
            /\ requestLog' = Append(requestLog, [url |-> threads[t].url, signed |-> FALSE,
                                                 region |-> SIGV4_REQUEST_REGION])
    /\ UNCHANGED <<SIGV4_SIGN_REQUESTS, SIGV4_REQUEST_REGION>>

\* lines 141-146: SigV4Auth(credentials, 'mediapackagev2', SIGV4_REQUEST_REGION)
\* and the signed request
SignRequest ==
  \E t \in DOMAIN threads :
    /\ threads[t].at = "sign"
    /\ MovesTo(t, "sent")
    /\ requestLog' = Append(requestLog, [url |-> threads[t].url, signed |-> TRUE,
                                         region |-> SIGV4_REQUEST_REGION])
    /\ UNCHANGED <<SIGV4_SIGN_REQUESTS, SIGV4_REQUEST_REGION>>

NextThreads ==
  TestFlagIsNone \/ InferFlag \/ InferTest \/ InferRegion \/ TestFlag \/ SignRequest

SpecThreads == InitThreads /\ [][NextThreads]_vars

\* the regions of the threads' URLs that are MediaPackage V2 endpoints
EndpointRegions ==
  {Split(threads[t].url, ".")[5] : t \in {x \in DOMAIN threads : IsManagedOrigin(threads[x].url)}}

\* C23: in every interleaving of the threads a request is signed only with
\* a region that is set, and set from a URL that made the flag True; no
\* thread finds the flag True and the region still unset when it signs.
C23_SignedWithRegion ==
  \A i \in 1..Len(requestLog) :
    requestLog[i].signed => requestLog[i].region \in EndpointRegions

====
